---- MODULE Spec2Model ----
(***************************************************************************)
(* Front end of the Dyego language: the recursive-descent Parser, the      *)
(* scope-aware Checker and the command-line driver, as state machines.     *)
(*                                                                         *)
(* Parser and Checker methods are operators that thread the object's       *)
(* mutable fields through their results.  A result's `st` is "ok" when     *)
(* the method returns, "throw" when it raises (the exception is in `exc`)  *)
(* and "diverge" when it enters a loop iteration that changes nothing and  *)
(* so never returns.                                                       *)
(***************************************************************************)
EXTENDS Integers, Sequences, FiniteSets, TLC

VARIABLES
    tokens,        \* Parser.tokens
    current,       \* Parser.current
    errors,        \* Parser.errors
    statements,    \* the local `statements` of Parser.parse
    pc,            \* position of the running parse call
    typeTokens,    \* token sequence handed to the type grammar
    typeOut,       \* what Parser.parseType produced for typeTokens
    environment,   \* Checker.environment: the scopes, global one first
    currentFunction, \* Checker.currentFunction
    checkerErrors, \* Checker.errors
    program,       \* the statement list given to the running check call
    stmtIndex,     \* the statement the loop of check has come to
    checkPc,       \* position of the running check call
    calls,         \* number of check calls made on the instance
    errorsAtCall,  \* Checker.errors as it was when the call began
    argc,          \* args.length in main
    content,       \* the file contents main read, in lexemes
    mainPc,        \* position of the driver
    exitCode,      \* exit code of the process, -1 while it runs
    stdout,        \* lines written with console.log
    stderr,        \* lines written with console.error
    lexerSource,   \* Lexer.source, as its characters
    lexerCurrent,  \* Lexer.current
    lexerLine,     \* Lexer.line
    lexerColumn,   \* Lexer.column
    lexerTokens,   \* Lexer.tokens
    lexerPc        \* position of the running scanTokens call

parserVars == <<tokens, current, errors, statements, pc>>
typeVars == <<typeTokens, typeOut>>
checkerVars ==
    <<environment, currentFunction, checkerErrors, program, stmtIndex, checkPc,
      calls, errorsAtCall>>
mainVars == <<argc, content, mainPc, exitCode, stdout, stderr>>
lexerVars == <<lexerSource, lexerCurrent, lexerLine, lexerColumn, lexerTokens, lexerPc>>
vars == <<parserVars, typeVars, checkerVars, mainVars, lexerVars>>

\* ------------------------------------------------------------------ bounds
\* longest enumerated type expression, in lexemes
MaxTypeLen == 7
\* longest exhaustively enumerated program, in lexemes
MaxSourceLen == 3
\* grammar-method frames available before the engine raises RangeError (the
\* frames of the leaf helpers peek, check, advance, match, consume, error
\* and synchronize are not counted)
StackLimit == 40
\* check calls made on one Checker instance
MaxChecks == 2
\* the longest chain of arithmetic operators in a sampled expression
MaxOperators == 3
\* longest exhaustively enumerated source text, in characters
MaxChars == 4

\* ------------------------------------------------------------------ tokens
NullNode == [kind |-> "null"]
NoLiteral == [lt |-> "null", n |-> 0, s |-> ""]

Token(type, lexeme, literal, line, column) ==
    [type |-> type, lexeme |-> lexeme, literal |-> literal,
     line |-> line, column |-> column]

keywords ==
    [w \in {"val", "var", "value", "fun", "if", "else", "when", "for",
            "while", "break", "continue", "as", "trait", "use", "return",
            "true", "false", "null", "this"} |->
        CASE w = "val" -> "VAL" [] w = "var" -> "VAR" [] w = "value" -> "VALUE"
          [] w = "fun" -> "FUN" [] w = "if" -> "IF" [] w = "else" -> "ELSE"
          [] w = "when" -> "WHEN" [] w = "for" -> "FOR" [] w = "while" -> "WHILE"
          [] w = "break" -> "BREAK" [] w = "continue" -> "CONTINUE"
          [] w = "as" -> "AS" [] w = "trait" -> "TRAIT" [] w = "use" -> "USE"
          [] w = "return" -> "RETURN" [] w = "true" -> "TRUE"
          [] w = "false" -> "FALSE" [] w = "null" -> "NULL" [] w = "this" -> "THIS"]

punctuation ==
    [w \in {"(", ")", "{", "}", "[", "]", ",", ".", ":", ";", "|", "||", "+",
            "*", "%", "-", "->", "!", "!=", "=", "==", "<", "<=", ">", ">=",
            "?", "?:", "?.", "&&", "/"} |->
        CASE w = "(" -> "LEFT_PAREN" [] w = ")" -> "RIGHT_PAREN"
          [] w = "{" -> "LEFT_BRACE" [] w = "}" -> "RIGHT_BRACE"
          [] w = "[" -> "LEFT_BRACKET" [] w = "]" -> "RIGHT_BRACKET"
          [] w = "," -> "COMMA" [] w = "." -> "DOT" [] w = ":" -> "COLON"
          [] w = ";" -> "SEMICOLON" [] w = "|" -> "PIPE" [] w = "||" -> "OR"
          [] w = "+" -> "PLUS" [] w = "*" -> "STAR" [] w = "%" -> "PERCENT"
          [] w = "-" -> "MINUS" [] w = "->" -> "ARROW" [] w = "!" -> "BANG"
          [] w = "!=" -> "BANG_EQUAL" [] w = "=" -> "EQUAL"
          [] w = "==" -> "EQUAL_EQUAL" [] w = "<" -> "LESS"
          [] w = "<=" -> "LESS_EQUAL" [] w = ">" -> "GREATER"
          [] w = ">=" -> "GREATER_EQUAL" [] w = "?" -> "QUESTION"
          [] w = "?:" -> "QUESTION_COLON" [] w = "?." -> "QUESTION_DOT"
          [] w = "&&" -> "AND" [] w = "/" -> "SLASH"]

\* lexemes the lexer's number() turns into INTEGER tokens, with parseInt's value
IntegerLexemes == [w \in {"1", "2", "3"} |->
    CASE w = "1" -> 1 [] w = "2" -> 2 [] w = "3" -> 3]
\* lexemes number() turns into FLOAT tokens, with parseFloat's value in tenths
FloatLexemes == [w \in {"1.0", "2.5"} |-> CASE w = "1.0" -> 10 [] w = "2.5" -> 25]
\* lexemes string() turns into STRING tokens, with the text between the quotes
StringLexemes == [w \in {"\"s\""} |-> CASE w = "\"s\"" -> "s"]

\* the token scanToken adds for one lexeme at the given column of line 1
scanToken(w, column) ==
    IF w \in DOMAIN punctuation THEN Token(punctuation[w], w, NoLiteral, 1, column)
    ELSE IF w \in DOMAIN IntegerLexemes
        THEN Token("INTEGER", w, [lt |-> "number", n |-> 10 * IntegerLexemes[w], s |-> ""], 1, column)
    ELSE IF w \in DOMAIN FloatLexemes
        THEN Token("FLOAT", w, [lt |-> "number", n |-> FloatLexemes[w], s |-> ""], 1, column)
    ELSE IF w \in DOMAIN StringLexemes
        THEN Token("STRING", w, [lt |-> "string", n |-> 0, s |-> StringLexemes[w]], 1, column)
    ELSE IF w \in DOMAIN keywords THEN Token(keywords[w], w, NoLiteral, 1, column)
    ELSE Token("IDENTIFIER", w, NoLiteral, 1, column)

\* the token list of a source text given as its lexemes, one column apart
scanTokens(ws) ==
    [i \in 1..(Len(ws) + 1) |->
        IF i <= Len(ws) THEN scanToken(ws[i], 2 * i - 1)
        ELSE Token("EOF", "", NoLiteral, 1, 2 * i - 1)]

\* ------------------------------------------------- Lexer, by characters
\* The source is a sequence of one-character strings; `cur` is 0-based as
\* Lexer.current is.  A scanning step's result carries the fields it may
\* have changed and the tokens it pushed.
Digits == {"0", "1", "2", "3", "4", "5", "6", "7", "8", "9"}
Letters ==
    {"a", "b", "c", "d", "e", "f", "g", "h", "i", "j", "k", "l", "m", "n", "o", "p",
     "q", "r", "s", "t", "u", "v", "w", "x", "y", "z", "A", "B", "C", "D", "E", "F",
     "G", "H", "I", "J", "K", "L", "M", "N", "O", "P", "Q", "R", "S", "T", "U", "V",
     "W", "X", "Y", "Z", "_"}
isDigit(c) == c \in Digits
isAlpha(c) == c \in Letters

\* the character "\\0" that peek() and peekNext() give past the end
NUL == "NUL"
peekChar(src, cur) == IF cur >= Len(src) THEN NUL ELSE src[cur + 1]
peekNext(src, cur) == IF cur + 1 >= Len(src) THEN NUL ELSE src[cur + 2]

\* source.substring(from, to)
RECURSIVE substring(_, _, _)
substring(src, from, to) ==
    IF from >= to THEN "" ELSE src[from + 1] \o substring(src, from + 1, to)

\* parseInt of a run of digits; parseFloat of digits.digits, in tenths
RECURSIVE parseInt(_, _, _)
parseInt(src, from, to) ==
    IF from >= to THEN 0
    ELSE 10 * parseInt(src, from, to - 1)
         + (CHOOSE v \in 0..9 : src[to] = <<"0", "1", "2", "3", "4", "5", "6", "7", "8", "9">>[v + 1])
parseFloat(src, from, dot, to) == 10 * parseInt(src, from, dot) + parseInt(src, dot + 1, dot + 2)

NoLexError == [text |-> "", c |-> "", line |-> 0, column |-> 0]
LexOk(cur, line, column, toks) ==
    [st |-> "ok", cur |-> cur, line |-> line, column |-> column, toks |-> toks,
     message |-> NoLexError]
LexError(text, c, line, column) == [text |-> text, c |-> c, line |-> line, column |-> column]
LexThrow(cur, line, column, message) ==
    [st |-> "throw", cur |-> cur, line |-> line, column |-> column, toks |-> <<>>,
     message |-> message]

\* while (test(this.peek())) this.advance(): where the loop stops
RECURSIVE advanceWhile(_, _, _)
advanceWhile(src, cur, chars) ==
    IF cur < Len(src) /\ src[cur + 1] \in chars THEN advanceWhile(src, cur + 1, chars) ELSE cur

RECURSIVE blockComment(_, _, _, _)
blockComment(src, cur, line, column) ==
    IF cur >= Len(src) THEN LexThrow(cur, line, column, LexError("Unterminated block comment", "", 0, 0))
    ELSE IF peekChar(src, cur) = "*" /\ peekNext(src, cur) = "/"
        THEN LexOk(cur + 2, line, column + 2, <<>>)
    ELSE IF peekChar(src, cur) = "\n" THEN blockComment(src, cur + 1, line + 1, 1 + 1)
    ELSE blockComment(src, cur + 1, line, column + 1)

\* string(); `start` and `startColumn` are the fields scanTokens set
RECURSIVE string(_, _, _, _, _, _)
string(src, start, startColumn, cur, line, column) ==
    IF cur >= Len(src) THEN LexThrow(cur, line, column, LexError("Unterminated string.", "", 0, 0))
    ELSE IF peekChar(src, cur) = "\"" THEN
        LexOk(cur + 1, line, column + 1,
              <<Token("STRING", substring(src, start, cur + 1),
                      [lt |-> "string", n |-> 0, s |-> substring(src, start + 1, cur)],
                      line, startColumn)>>)
    ELSE IF peekChar(src, cur) = "\n" THEN string(src, start, startColumn, cur + 1, line + 1, 1 + 1)
    ELSE string(src, start, startColumn, cur + 1, line, column + 1)

number(src, start, startColumn, line) ==
    LET int == advanceWhile(src, start + 1, Digits) IN
    IF peekChar(src, int) = "." /\ isDigit(peekNext(src, int)) THEN
        LET end == advanceWhile(src, int + 1, Digits) IN
        LexOk(end, line, startColumn + (end - start),
              <<Token("FLOAT", substring(src, start, end),
                      [lt |-> "number", n |-> parseFloat(src, start, int, end), s |-> ""],
                      line, startColumn)>>)
    ELSE LexOk(int, line, startColumn + (int - start),
               <<Token("INTEGER", substring(src, start, int),
                       [lt |-> "number", n |-> 10 * parseInt(src, start, int), s |-> ""],
                       line, startColumn)>>)

identifier(src, start, startColumn, line) ==
    LET end == advanceWhile(src, start + 1, {ch \in Letters \cup Digits : isAlpha(ch) \/ isDigit(ch)})
        text == substring(src, start, end) IN
    LexOk(end, line, startColumn + (end - start),
          <<Token(IF text \in DOMAIN keywords THEN keywords[text] ELSE "IDENTIFIER",
                  text, NoLiteral, line, startColumn)>>)

\* one call of scanToken() from the loop of scanTokens(), which has just
\* set start = current and startColumn = column
scanTokenAt(src, start, line, startColumn) ==
    LET c == src[start + 1]
        two == c \o peekChar(src, start + 1) IN
    IF c = "/" THEN
        IF peekChar(src, start + 1) = "/"
        THEN LET end == advanceWhile(src, start + 2, {src[i] : i \in DOMAIN src} \ {"\n"}) IN
             LexOk(end, line, startColumn + (end - start), <<>>)
        ELSE IF peekChar(src, start + 1) = "*"
        THEN blockComment(src, start + 2, line, startColumn + 2)
        ELSE LexOk(start + 1, line, startColumn + 1,
                   <<Token("SLASH", "/", NoLiteral, line, startColumn)>>)
    ELSE IF two \in DOMAIN punctuation
        THEN LexOk(start + 2, line, startColumn + 2,
                   <<Token(punctuation[two], two, NoLiteral, line, startColumn)>>)
    ELSE IF c \in DOMAIN punctuation
        THEN LexOk(start + 1, line, startColumn + 1,
                   <<Token(punctuation[c], c, NoLiteral, line, startColumn)>>)
    ELSE IF c \in {" ", "\r", "\t"} THEN LexOk(start + 1, line, startColumn + 1, <<>>)
    ELSE IF c = "\n" THEN LexOk(start + 1, line + 1, 1, <<>>)
    ELSE IF c = "\"" THEN string(src, start, startColumn, start + 1, line, startColumn + 1)
    ELSE IF isDigit(c) THEN number(src, start, startColumn, line)
    ELSE IF isAlpha(c) THEN identifier(src, start, startColumn, line)
    ELSE LexThrow(start + 1, line, startColumn + 1,
                  LexError("Unexpected character", c, line, startColumn))

\* ------------------------------------------------------- parser results
NoExc == [kind |-> "none", line |-> 0, lexeme |-> "", message |-> ""]

Ok(cur, errs, node) ==
    [st |-> "ok", cur |-> cur, errs |-> errs, node |-> node, exc |-> NoExc]
Throw(cur, errs, exc) ==
    [st |-> "throw", cur |-> cur, errs |-> errs, node |-> NullNode, exc |-> exc]
Diverge(cur, errs) ==
    [st |-> "diverge", cur |-> cur, errs |-> errs, node |-> NullNode, exc |-> NoExc]

\* the engine's exception when the call stack is exhausted
RangeError ==
    [kind |-> "RangeError", line |-> 0, lexeme |-> "",
     message |-> "Maximum call stack size exceeded"]

\* ------------------------------------------------------- parser helpers
\* `current` is 0-based as in the source; sequences here are 1-based
peek(toks, cur) == toks[cur + 1]
previous(toks, cur) == toks[cur]
isAtEnd(toks, cur) == peek(toks, cur).type = "EOF"
check(toks, cur, type) ==
    IF isAtEnd(toks, cur) THEN FALSE ELSE peek(toks, cur).type = type
checkAny(toks, cur, types) == \E t \in types : check(toks, cur, t)
\* the cursor after advance()
advance(toks, cur) == IF ~isAtEnd(toks, cur) THEN cur + 1 ELSE cur
\* match(...types): TRUE iff it advanced; the cursor after is matchCur
match(toks, cur, types) == checkAny(toks, cur, types)
matchCur(toks, cur, types) ==
    IF match(toks, cur, types) THEN advance(toks, cur) ELSE cur
peekNextType(toks, cur) ==
    IF cur + 1 >= Len(toks) THEN "undefined" ELSE toks[cur + 2].type

error(token, message) ==
    [kind |-> "Error", line |-> token.line, lexeme |-> token.lexeme,
     message |-> message]

\* consume: the consumed token as node, or the syntax error raised
consume(toks, cur, errs, type, message) ==
    IF check(toks, cur, type)
    THEN Ok(advance(toks, cur), errs, previous(toks, advance(toks, cur)))
    ELSE Throw(cur, errs, error(peek(toks, cur), message))

\* A call made by a parser method: when the callee raises (or never returns)
\* the caller ends there with the same outcome, otherwise the caller goes on
\* with the callee's result
Bind(r, K(_)) == IF r.st # "ok" THEN r ELSE K(r)

\* ------------------------------------------------------- type grammar
NamedType(name, generics) == [kind |-> "NamedType", name |-> name, generics |-> generics]
UnionType(types) == [kind |-> "UnionType", types |-> types]
ArrayType(elementType) == [kind |-> "ArrayType", elementType |-> elementType]
OptionalType(innerType) == [kind |-> "OptionalType", innerType |-> innerType]

RECURSIVE parseType(_, _, _, _)
RECURSIVE parseBaseType(_, _, _, _)
RECURSIVE parseTypePostfix(_, _, _, _)
RECURSIVE parseGenericArgs(_, _, _, _, _)

\* the `while (true)` loop of parseType over postfix `[]` and `?`
parseTypePostfix(toks, cur, errs, type) ==
    IF match(toks, cur, {"LEFT_BRACKET"}) THEN
        Bind(consume(toks, cur + 1, errs, "RIGHT_BRACKET",
                     "Expect ']' after '[' for array type."),
             LAMBDA c : parseTypePostfix(toks, c.cur, errs, ArrayType(type)))
    ELSE IF match(toks, cur, {"QUESTION"}) THEN
        parseTypePostfix(toks, cur + 1, errs, OptionalType(type))
    ELSE Ok(cur, errs, type)

\* `rhs instanceof UnionType ? [type, ...rhs.types] : [type, rhs]`
UnionSplice(type, rhs) ==
    IF rhs.kind = "UnionType" THEN UnionType(<<type>> \o rhs.types)
    ELSE UnionType(<<type, rhs>>)

parseType(toks, cur, errs, d) ==
    IF d > StackLimit THEN Throw(cur, errs, RangeError) ELSE
    Bind(parseBaseType(toks, cur, errs, d + 1), LAMBDA b :
    Bind(parseTypePostfix(toks, b.cur, errs, b.node), LAMBDA p :
    IF match(toks, p.cur, {"PIPE"}) THEN
        Bind(parseType(toks, p.cur + 1, errs, d + 1), LAMBDA rhs :
             Ok(rhs.cur, errs, UnionSplice(p.node, rhs.node)))
    ELSE p))

\* the do-while over generic type arguments
parseGenericArgs(toks, cur, errs, generics, d) ==
    Bind(parseType(toks, cur, errs, d + 1), LAMBDA g :
    IF match(toks, g.cur, {"COMMA"})
    THEN parseGenericArgs(toks, g.cur + 1, errs, Append(generics, g.node), d)
    ELSE Ok(g.cur, errs, Append(generics, g.node)))

parseBaseType(toks, cur, errs, d) ==
    IF d > StackLimit THEN Throw(cur, errs, RangeError) ELSE
    IF match(toks, cur, {"LEFT_PAREN"}) THEN
        Bind(parseType(toks, cur + 1, errs, d + 1), LAMBDA t :
        Bind(consume(toks, t.cur, errs, "RIGHT_PAREN", "Expect ')' after grouped type."),
             LAMBDA c : Ok(c.cur, errs, t.node)))
    ELSE
    Bind(consume(toks, cur, errs, "IDENTIFIER", "Expect type name."), LAMBDA name :
    IF match(toks, name.cur, {"LESS"}) THEN
        Bind(parseGenericArgs(toks, name.cur + 1, errs, <<>>, d), LAMBDA gs :
        Bind(consume(toks, gs.cur, errs, "GREATER",
                     "Expect '>' after generic type arguments."),
             LAMBDA c : Ok(c.cur, errs, NamedType(name.node, gs.node))))
    ELSE Ok(name.cur, errs, NamedType(name.node, <<>>)))

\* ------------------------------------------------------- syntax tree
AssignExpr(name, value) == [kind |-> "AssignExpr", name |-> name, value |-> value]
BinaryExpr(left, operator, right) ==
    [kind |-> "BinaryExpr", left |-> left, operator |-> operator, right |-> right]
CallExpr(callee, paren, args) ==
    [kind |-> "CallExpr", callee |-> callee, paren |-> paren, arguments |-> args]
GetExpr(object, name, isSafe) ==
    [kind |-> "GetExpr", object |-> object, name |-> name, isSafe |-> isSafe]
GroupingExpr(expression) == [kind |-> "GroupingExpr", expression |-> expression]
LiteralExpr(value) == [kind |-> "LiteralExpr", value |-> value]
LogicalExpr(left, operator, right) ==
    [kind |-> "LogicalExpr", left |-> left, operator |-> operator, right |-> right]
SetExpr(object, name, value, isSafe) ==
    [kind |-> "SetExpr", object |-> object, name |-> name, value |-> value,
     isSafe |-> isSafe]
ThisExpr(keyword) == [kind |-> "ThisExpr", keyword |-> keyword]
UnaryExpr(operator, right) == [kind |-> "UnaryExpr", operator |-> operator, right |-> right]
VariableExpr(name) == [kind |-> "VariableExpr", name |-> name]
BlockExpr(stmts) == [kind |-> "BlockExpr", statements |-> stmts]
IfExpr(condition, thenBranch, elseBranch) ==
    [kind |-> "IfExpr", condition |-> condition, thenBranch |-> thenBranch,
     elseBranch |-> elseBranch]
WhenEntry(conditions, body) == [kind |-> "WhenEntry", conditions |-> conditions, body |-> body]
WhenExpr(subject, entries, elseBranch) ==
    [kind |-> "WhenExpr", subject |-> subject, entries |-> entries,
     elseBranch |-> elseBranch]
LambdaExpr(params, body) == [kind |-> "LambdaExpr", params |-> params, body |-> body]
ArrayLiteralExpr(elements) == [kind |-> "ArrayLiteralExpr", elements |-> elements]
IndexGetExpr(object, index) == [kind |-> "IndexGetExpr", object |-> object, index |-> index]
IndexSetExpr(object, index, value) ==
    [kind |-> "IndexSetExpr", object |-> object, index |-> index, value |-> value]
PropagateExpr(expression, operator) ==
    [kind |-> "PropagateExpr", expression |-> expression, operator |-> operator]
CastExpr(expression, targetType, operator) ==
    [kind |-> "CastExpr", expression |-> expression, targetType |-> targetType,
     operator |-> operator]

ExpressionStmt(expression) == [kind |-> "ExpressionStmt", expression |-> expression]
FunctionStmt(name, params, returnType, body, generics, isMutating) ==
    [kind |-> "FunctionStmt", name |-> name, params |-> params,
     returnType |-> returnType, body |-> body, generics |-> generics,
     isMutating |-> isMutating]
ReturnStmt(keyword, value) == [kind |-> "ReturnStmt", keyword |-> keyword, value |-> value]
VarStmt(name, initializer, type, isMutable) ==
    [kind |-> "VarStmt", name |-> name, initializer |-> initializer, type |-> type,
     isMutable |-> isMutable]
WhileStmt(condition, body) == [kind |-> "WhileStmt", condition |-> condition, body |-> body]
ForStmt(variable, iterable, body) ==
    [kind |-> "ForStmt", variable |-> variable, iterable |-> iterable, body |-> body]
BreakStmt(keyword, label) == [kind |-> "BreakStmt", keyword |-> keyword, label |-> label]
ContinueStmt(keyword, label) == [kind |-> "ContinueStmt", keyword |-> keyword, label |-> label]
ValueStmt(name, fields, methods, generics) ==
    [kind |-> "ValueStmt", name |-> name, fields |-> fields, methods |-> methods,
     generics |-> generics]
UseStmt(path, items, isTrait) ==
    [kind |-> "UseStmt", path |-> path, items |-> items, isTrait |-> isTrait]
TraitStmt(name, methods) == [kind |-> "TraitStmt", name |-> name, methods |-> methods]

\* LiteralExpr values of the keyword literals
BooleanLiteral(b) == [lt |-> "boolean", n |-> IF b THEN 1 ELSE 0, s |-> ""]

\* ------------------------------------------------------- expressions
RECURSIVE declaration(_, _, _, _)
RECURSIVE functionDeclaration(_, _, _, _, _, _)
RECURSIVE valueDeclaration(_, _, _, _)
RECURSIVE valueMethods(_, _, _, _, _)
RECURSIVE traitDeclaration(_, _, _, _)
RECURSIVE traitMethods(_, _, _, _, _)
RECURSIVE statement(_, _, _, _)
RECURSIVE whileStatement(_, _, _, _)
RECURSIVE forStatement(_, _, _, _)
RECURSIVE returnStatement(_, _, _, _)
RECURSIVE expressionStatement(_, _, _, _)
RECURSIVE varDeclaration(_, _, _, _)
RECURSIVE valDeclaration(_, _, _, _)
RECURSIVE expression(_, _, _, _)
RECURSIVE assignment(_, _, _, _)
RECURSIVE elvis(_, _, _, _)
RECURSIVE or(_, _, _, _)
RECURSIVE orLoop(_, _, _, _, _, _)
RECURSIVE and(_, _, _, _)
RECURSIVE andLoop(_, _, _, _, _, _)
RECURSIVE equality(_, _, _, _)
RECURSIVE equalityLoop(_, _, _, _, _, _)
RECURSIVE comparison(_, _, _, _)
RECURSIVE comparisonLoop(_, _, _, _, _, _)
RECURSIVE term(_, _, _, _)
RECURSIVE termLoop(_, _, _, _, _, _)
RECURSIVE factor(_, _, _, _)
RECURSIVE factorLoop(_, _, _, _, _, _)
RECURSIVE factorLoopFlat(_, _, _, _, _, _)
RECURSIVE unary(_, _, _, _)
RECURSIVE cast(_, _, _, _)
RECURSIVE castLoop(_, _, _, _, _)
RECURSIVE call(_, _, _, _)
RECURSIVE callLoop(_, _, _, _, _)
RECURSIVE finishCall(_, _, _, _, _)
RECURSIVE finishCallArgs(_, _, _, _, _)
RECURSIVE primary(_, _, _, _)
RECURSIVE ifExpression(_, _, _, _)
RECURSIVE whenExpression(_, _, _, _)
RECURSIVE whenEntries(_, _, _, _, _, _)
RECURSIVE whenConditions(_, _, _, _, _)
RECURSIVE parseControlFlowBody(_, _, _, _)
RECURSIVE block(_, _, _, _)
RECURSIVE blockStatements(_, _, _, _, _)
RECURSIVE lambda(_, _, _, _)
RECURSIVE lambdaParams(_, _, _, _, _)
RECURSIVE arrayLiteral(_, _, _, _)
RECURSIVE arrayElements(_, _, _, _, _)

expression(toks, cur, errs, d) ==
    IF d > StackLimit THEN Throw(cur, errs, RangeError) ELSE
    assignment(toks, cur, errs, d + 1)

\* what assignment() does with a target that is none of the three accepted
\* forms: error(equals, ...) builds an Error that is neither thrown nor
\* pushed, and the left expression is returned
InvalidAssignmentTarget(value, expr, equals) == Ok(value.cur, value.errs, expr)

assignment(toks, cur, errs, d) ==
    IF d > StackLimit THEN Throw(cur, errs, RangeError) ELSE
    Bind(elvis(toks, cur, errs, d + 1), LAMBDA e :
    IF match(toks, e.cur, {"EQUAL"}) THEN
        Bind(assignment(toks, e.cur + 1, e.errs, d + 1), LAMBDA value :
        IF e.node.kind = "VariableExpr"
            THEN Ok(value.cur, value.errs, AssignExpr(e.node.name, value.node))
        ELSE IF e.node.kind = "GetExpr"
            THEN Ok(value.cur, value.errs,
                    SetExpr(e.node.object, e.node.name, value.node, e.node.isSafe))
        ELSE IF e.node.kind = "IndexGetExpr"
            THEN Ok(value.cur, value.errs,
                    IndexSetExpr(e.node.object, e.node.index, value.node))
        ELSE InvalidAssignmentTarget(value, e.node, peek(toks, e.cur)))
    ELSE e)

elvis(toks, cur, errs, d) ==
    IF d > StackLimit THEN Throw(cur, errs, RangeError) ELSE
    Bind(or(toks, cur, errs, d + 1), LAMBDA e :
    IF match(toks, e.cur, {"QUESTION_COLON"}) THEN
        Bind(elvis(toks, e.cur + 1, e.errs, d + 1), LAMBDA rightRecursive :
             Ok(rightRecursive.cur, rightRecursive.errs,
                BinaryExpr(e.node, peek(toks, e.cur), rightRecursive.node)))
    ELSE e)

\* Each binary level is `expr = next(); while (match(ops)) { operator =
\* previous(); right = next(); expr = new Node(expr, operator, right) }`.
\* The Loop operator is one turn of that code: it parses one operand, which
\* is `expr` itself on the first turn (operator is NullNode) and `right` on
\* the later ones, and goes round again while an operator follows.
orLoop(toks, cur, errs, expr, operator, d) ==
    Bind(and(toks, cur, errs, d + 1), LAMBDA right :
    LET e == IF operator = NullNode THEN right.node
             ELSE LogicalExpr(expr, operator, right.node) IN
    IF match(toks, right.cur, {"OR"})
    THEN orLoop(toks, right.cur + 1, right.errs, e, peek(toks, right.cur), d)
    ELSE Ok(right.cur, right.errs, e))

or(toks, cur, errs, d) ==
    IF d > StackLimit THEN Throw(cur, errs, RangeError) ELSE
    orLoop(toks, cur, errs, NullNode, NullNode, d)

andLoop(toks, cur, errs, expr, operator, d) ==
    Bind(equality(toks, cur, errs, d + 1), LAMBDA right :
    LET e == IF operator = NullNode THEN right.node
             ELSE LogicalExpr(expr, operator, right.node) IN
    IF match(toks, right.cur, {"AND"})
    THEN andLoop(toks, right.cur + 1, right.errs, e, peek(toks, right.cur), d)
    ELSE Ok(right.cur, right.errs, e))

and(toks, cur, errs, d) ==
    IF d > StackLimit THEN Throw(cur, errs, RangeError) ELSE
    andLoop(toks, cur, errs, NullNode, NullNode, d)

equalityLoop(toks, cur, errs, expr, operator, d) ==
    Bind(comparison(toks, cur, errs, d + 1), LAMBDA right :
    LET e == IF operator = NullNode THEN right.node
             ELSE BinaryExpr(expr, operator, right.node) IN
    IF match(toks, right.cur, {"BANG_EQUAL", "EQUAL_EQUAL"})
    THEN equalityLoop(toks, right.cur + 1, right.errs, e, peek(toks, right.cur), d)
    ELSE Ok(right.cur, right.errs, e))

equality(toks, cur, errs, d) ==
    IF d > StackLimit THEN Throw(cur, errs, RangeError) ELSE
    equalityLoop(toks, cur, errs, NullNode, NullNode, d)

comparisonLoop(toks, cur, errs, expr, operator, d) ==
    Bind(term(toks, cur, errs, d + 1), LAMBDA right :
    LET e == IF operator = NullNode THEN right.node
             ELSE BinaryExpr(expr, operator, right.node) IN
    IF match(toks, right.cur, {"GREATER", "GREATER_EQUAL", "LESS", "LESS_EQUAL"})
    THEN comparisonLoop(toks, right.cur + 1, right.errs, e, peek(toks, right.cur), d)
    ELSE Ok(right.cur, right.errs, e))

comparison(toks, cur, errs, d) ==
    IF d > StackLimit THEN Throw(cur, errs, RangeError) ELSE
    comparisonLoop(toks, cur, errs, NullNode, NullNode, d)

termLoop(toks, cur, errs, expr, operator, d) ==
    Bind(factor(toks, cur, errs, d + 1), LAMBDA right :
    LET e == IF operator = NullNode THEN right.node
             ELSE BinaryExpr(expr, operator, right.node) IN
    IF match(toks, right.cur, {"MINUS", "PLUS"})
    THEN termLoop(toks, right.cur + 1, right.errs, e, peek(toks, right.cur), d)
    ELSE Ok(right.cur, right.errs, e))

term(toks, cur, errs, d) ==
    IF d > StackLimit THEN Throw(cur, errs, RangeError) ELSE
    termLoop(toks, cur, errs, NullNode, NullNode, d)

\* a variant of the loop of factor() with no precedence levels: it takes the
\* additive operators as well
factorLoopFlat(toks, cur, errs, expr, operator, d) ==
    Bind(unary(toks, cur, errs, d + 1), LAMBDA right :
    LET e == IF operator = NullNode THEN right.node
             ELSE BinaryExpr(expr, operator, right.node) IN
    IF match(toks, right.cur, {"SLASH", "STAR", "PERCENT", "MINUS", "PLUS"})
    THEN factorLoopFlat(toks, right.cur + 1, right.errs, e, peek(toks, right.cur), d)
    ELSE Ok(right.cur, right.errs, e))

factorLoop(toks, cur, errs, expr, operator, d) ==
    Bind(unary(toks, cur, errs, d + 1), LAMBDA right :
    LET e == IF operator = NullNode THEN right.node
             ELSE BinaryExpr(expr, operator, right.node) IN
    IF match(toks, right.cur, {"SLASH", "STAR", "PERCENT"})
    THEN factorLoop(toks, right.cur + 1, right.errs, e, peek(toks, right.cur), d)
    ELSE Ok(right.cur, right.errs, e))

factor(toks, cur, errs, d) ==
    IF d > StackLimit THEN Throw(cur, errs, RangeError) ELSE
    factorLoop(toks, cur, errs, NullNode, NullNode, d)

unary(toks, cur, errs, d) ==
    IF d > StackLimit THEN Throw(cur, errs, RangeError) ELSE
    IF match(toks, cur, {"BANG", "MINUS"}) THEN
        Bind(unary(toks, cur + 1, errs, d + 1), LAMBDA right :
             Ok(right.cur, right.errs, UnaryExpr(peek(toks, cur), right.node)))
    ELSE cast(toks, cur, errs, d + 1)

castLoop(toks, cur, errs, expr, d) ==
    IF match(toks, cur, {"AS"}) THEN
        Bind(parseType(toks, cur + 1, errs, d + 1), LAMBDA type :
             castLoop(toks, type.cur, type.errs,
                      CastExpr(expr, type.node, peek(toks, cur)), d))
    ELSE Ok(cur, errs, expr)

cast(toks, cur, errs, d) ==
    IF d > StackLimit THEN Throw(cur, errs, RangeError) ELSE
    Bind(call(toks, cur, errs, d + 1), LAMBDA e :
         castLoop(toks, e.cur, e.errs, e.node, d))

\* the `while (true)` loop of call() over the postfix forms
callLoop(toks, cur, errs, expr, d) ==
    IF match(toks, cur, {"LEFT_PAREN"}) THEN
        Bind(finishCall(toks, cur + 1, errs, expr, d + 1), LAMBDA r :
             callLoop(toks, r.cur, r.errs, r.node, d))
    ELSE IF match(toks, cur, {"DOT"}) THEN
        Bind(consume(toks, cur + 1, errs, "IDENTIFIER",
                     "Expect property name after '.'."), LAMBDA name :
             callLoop(toks, name.cur, errs, GetExpr(expr, name.node, FALSE), d))
    ELSE IF match(toks, cur, {"QUESTION_DOT"}) THEN
        Bind(consume(toks, cur + 1, errs, "IDENTIFIER",
                     "Expect property name after '?.'."), LAMBDA name :
             callLoop(toks, name.cur, errs, GetExpr(expr, name.node, TRUE), d))
    ELSE IF match(toks, cur, {"LEFT_BRACKET"}) THEN
        Bind(expression(toks, cur + 1, errs, d + 1), LAMBDA index :
        Bind(consume(toks, index.cur, index.errs, "RIGHT_BRACKET",
                     "Expect ']' after index."), LAMBDA c :
             callLoop(toks, c.cur, c.errs, IndexGetExpr(expr, index.node), d)))
    ELSE IF match(toks, cur, {"QUESTION"}) THEN
        callLoop(toks, cur + 1, errs, PropagateExpr(expr, peek(toks, cur)), d)
    ELSE IF check(toks, cur, "LEFT_BRACE") THEN
        Bind(lambda(toks, cur, errs, d + 1), LAMBDA l :
             callLoop(toks, l.cur, l.errs,
                      CallExpr(expr, previous(toks, l.cur),
                               <<[name |-> NullNode, value |-> l.node]>>), d))
    ELSE Ok(cur, errs, expr)

call(toks, cur, errs, d) ==
    IF d > StackLimit THEN Throw(cur, errs, RangeError) ELSE
    Bind(primary(toks, cur, errs, d + 1), LAMBDA e :
         callLoop(toks, e.cur, e.errs, e.node, d))

\* one argument of finishCall: `name = value` when an identifier is followed
\* by `=` (both consumes then succeed), a bare expression otherwise
IsNamedArg(toks, cur) ==
    check(toks, cur, "IDENTIFIER") /\ peekNextType(toks, cur) = "EQUAL"

\* the do-while of finishCall over the arguments
finishCallArgs(toks, cur, errs, args, d) ==
    Bind(expression(toks, IF IsNamedArg(toks, cur) THEN cur + 2 ELSE cur, errs, d + 1),
         LAMBDA value :
    LET arg == [name |-> IF IsNamedArg(toks, cur) THEN peek(toks, cur) ELSE NullNode,
                value |-> value.node]
    IN IF match(toks, value.cur, {"COMMA"})
       THEN finishCallArgs(toks, value.cur + 1, value.errs, Append(args, arg), d)
       ELSE Ok(value.cur, value.errs, Append(args, arg)))

\* a finishCall that leaves a `{` after the closing parenthesis to its caller
finishCallNoLambda(toks, cur, errs, callee, d) ==
    IF d > StackLimit THEN Throw(cur, errs, RangeError) ELSE
    Bind(IF ~check(toks, cur, "RIGHT_PAREN")
         THEN finishCallArgs(toks, cur, errs, <<>>, d)
         ELSE Ok(cur, errs, <<>>), LAMBDA args :
    Bind(consume(toks, args.cur, args.errs, "RIGHT_PAREN",
                 "Expect ')' after arguments."), LAMBDA paren :
         Ok(paren.cur, paren.errs, CallExpr(callee, paren.node, args.node))))

finishCall(toks, cur, errs, callee, d) ==
    IF d > StackLimit THEN Throw(cur, errs, RangeError) ELSE
    Bind(IF ~check(toks, cur, "RIGHT_PAREN")
         THEN finishCallArgs(toks, cur, errs, <<>>, d)
         ELSE Ok(cur, errs, <<>>), LAMBDA args :
    Bind(consume(toks, args.cur, args.errs, "RIGHT_PAREN",
                 "Expect ')' after arguments."), LAMBDA paren :
    IF check(toks, paren.cur, "LEFT_BRACE") THEN
        Bind(lambda(toks, paren.cur, paren.errs, d + 1), LAMBDA lambdaExpr :
             Ok(lambdaExpr.cur, lambdaExpr.errs,
                CallExpr(callee, paren.node,
                         Append(args.node,
                                [name |-> NullNode, value |-> lambdaExpr.node]))))
    ELSE Ok(paren.cur, paren.errs, CallExpr(callee, paren.node, args.node))))

primary(toks, cur, errs, d) ==
    IF d > StackLimit THEN Throw(cur, errs, RangeError) ELSE
    IF match(toks, cur, {"FALSE"}) THEN Ok(cur + 1, errs, LiteralExpr(BooleanLiteral(FALSE)))
    ELSE IF match(toks, cur, {"TRUE"}) THEN Ok(cur + 1, errs, LiteralExpr(BooleanLiteral(TRUE)))
    ELSE IF match(toks, cur, {"NULL"}) THEN Ok(cur + 1, errs, LiteralExpr(NoLiteral))
    ELSE IF match(toks, cur, {"THIS"}) THEN Ok(cur + 1, errs, ThisExpr(peek(toks, cur)))
    ELSE IF match(toks, cur, {"INTEGER", "FLOAT", "STRING"})
        THEN Ok(cur + 1, errs, LiteralExpr(peek(toks, cur).literal))
    ELSE IF match(toks, cur, {"IDENTIFIER"})
        THEN Ok(cur + 1, errs, VariableExpr(peek(toks, cur)))
    ELSE IF match(toks, cur, {"LEFT_PAREN"}) THEN
        Bind(expression(toks, cur + 1, errs, d + 1), LAMBDA e :
        Bind(consume(toks, e.cur, e.errs, "RIGHT_PAREN",
                     "Expect ')' after expression."), LAMBDA c :
             Ok(c.cur, c.errs, GroupingExpr(e.node))))
    ELSE IF match(toks, cur, {"IF"}) THEN ifExpression(toks, cur + 1, errs, d + 1)
    ELSE IF match(toks, cur, {"WHEN"}) THEN whenExpression(toks, cur + 1, errs, d + 1)
    ELSE IF check(toks, cur, "LEFT_BRACE") THEN lambda(toks, cur, errs, d + 1)
    ELSE IF match(toks, cur, {"LEFT_BRACKET"}) THEN arrayLiteral(toks, cur + 1, errs, d + 1)
    ELSE Throw(cur, errs, error(peek(toks, cur), "Expect expression."))

ifExpression(toks, cur, errs, d) ==
    IF d > StackLimit THEN Throw(cur, errs, RangeError) ELSE
    Bind(consume(toks, cur, errs, "LEFT_PAREN", "Expect '(' after 'if'."), LAMBDA lp :
    Bind(expression(toks, lp.cur, errs, d + 1), LAMBDA condition :
    Bind(consume(toks, condition.cur, condition.errs, "RIGHT_PAREN",
                 "Expect ')' after if condition."), LAMBDA rp :
    Bind(parseControlFlowBody(toks, rp.cur, rp.errs, d + 1), LAMBDA thenBranch :
    IF match(toks, thenBranch.cur, {"ELSE"}) THEN
        Bind(parseControlFlowBody(toks, thenBranch.cur + 1, thenBranch.errs, d + 1),
             LAMBDA elseBranch :
             Ok(elseBranch.cur, elseBranch.errs,
                IfExpr(condition.node, thenBranch.node, elseBranch.node)))
    ELSE Ok(thenBranch.cur, thenBranch.errs,
            IfExpr(condition.node, thenBranch.node, NullNode))))))

\* the do-while of whenExpression over one entry's conditions
whenConditions(toks, cur, errs, conditions, d) ==
    Bind(expression(toks, cur, errs, d + 1), LAMBDA e :
    IF match(toks, e.cur, {"COMMA"})
    THEN whenConditions(toks, e.cur + 1, e.errs, Append(conditions, e.node), d)
    ELSE Ok(e.cur, e.errs, Append(conditions, e.node)))

\* the while loop of whenExpression; the node is <<entries, elseBranch>>
whenEntries(toks, cur, errs, entries, elseBranch, d) ==
    IF check(toks, cur, "RIGHT_BRACE") \/ isAtEnd(toks, cur)
    THEN Ok(cur, errs, <<entries, elseBranch>>)
    ELSE IF match(toks, cur, {"ELSE"}) THEN
        Bind(consume(toks, cur + 1, errs, "ARROW", "Expect '->' after 'else'."),
             LAMBDA arrow :
        Bind(parseControlFlowBody(toks, arrow.cur, errs, d + 1), LAMBDA body :
             whenEntries(toks, matchCur(toks, body.cur, {"COMMA", "SEMICOLON"}),
                         body.errs, entries, body.node, d)))
    ELSE
        Bind(whenConditions(toks, cur, errs, <<>>, d), LAMBDA conditions :
        Bind(consume(toks, conditions.cur, conditions.errs, "ARROW",
                     "Expect '->' after conditions."), LAMBDA arrow :
        Bind(parseControlFlowBody(toks, arrow.cur, arrow.errs, d + 1), LAMBDA body :
             whenEntries(toks, matchCur(toks, body.cur, {"COMMA", "SEMICOLON"}),
                         body.errs,
                         Append(entries, WhenEntry(conditions.node, body.node)),
                         elseBranch, d))))

whenExpression(toks, cur, errs, d) ==
    IF d > StackLimit THEN Throw(cur, errs, RangeError) ELSE
    Bind(consume(toks, cur, errs, "LEFT_PAREN", "Expect '(' after 'when'."), LAMBDA lp :
    Bind(IF ~check(toks, lp.cur, "RIGHT_PAREN")
         THEN expression(toks, lp.cur, errs, d + 1)
         ELSE Ok(lp.cur, errs, NullNode), LAMBDA subject :
    Bind(consume(toks, subject.cur, subject.errs, "RIGHT_PAREN",
                 "Expect ')' after when subject."), LAMBDA rp :
    Bind(consume(toks, rp.cur, rp.errs, "LEFT_BRACE", "Expect '{' after when."),
         LAMBDA lb :
    Bind(whenEntries(toks, lb.cur, lb.errs, <<>>, NullNode, d), LAMBDA es :
    Bind(consume(toks, es.cur, es.errs, "RIGHT_BRACE", "Expect '}' after when body."),
         LAMBDA rb :
         Ok(rb.cur, rb.errs, WhenExpr(subject.node, es.node[1], es.node[2]))))))))

parseControlFlowBody(toks, cur, errs, d) ==
    IF d > StackLimit THEN Throw(cur, errs, RangeError) ELSE
    IF check(toks, cur, "LEFT_BRACE") THEN block(toks, cur, errs, d + 1)
    ELSE expression(toks, cur, errs, d + 1)

\* the statement loop shared, in identical code, by block() and lambda()
blockStatements(toks, cur, errs, stmts, d) ==
    IF check(toks, cur, "RIGHT_BRACE") \/ isAtEnd(toks, cur) THEN Ok(cur, errs, stmts)
    ELSE
        Bind(declaration(toks, cur, errs, d + 1), LAMBDA decl :
             blockStatements(toks, decl.cur, decl.errs,
                             IF decl.node # NullNode THEN Append(stmts, decl.node)
                             ELSE stmts, d))

block(toks, cur, errs, d) ==
    IF d > StackLimit THEN Throw(cur, errs, RangeError) ELSE
    Bind(consume(toks, cur, errs, "LEFT_BRACE", "Expect '{' to start block."), LAMBDA lb :
    Bind(blockStatements(toks, lb.cur, lb.errs, <<>>, d), LAMBDA ss :
    Bind(consume(toks, ss.cur, ss.errs, "RIGHT_BRACE", "Expect '}' after block."),
         LAMBDA rb :
         Ok(rb.cur, rb.errs, BlockExpr(ss.node)))))

\* the do-while of lambda() over its parameters
lambdaParams(toks, cur, errs, params, d) ==
    Bind(consume(toks, cur, errs, "IDENTIFIER", "Expect param name."), LAMBDA name :
    Bind(IF match(toks, name.cur, {"COLON"})
         THEN parseType(toks, name.cur + 1, errs, d + 1)
         ELSE Ok(name.cur, errs, NullNode), LAMBDA type :
    LET ps == Append(params, [name |-> name.node, type |-> type.node]) IN
    IF match(toks, type.cur, {"COMMA"})
    THEN lambdaParams(toks, type.cur + 1, errs, ps, d)
    ELSE Ok(type.cur, errs, ps)))

\* lambda(): the parameter list is parsed when an identifier is followed by
\* `:`, `,` or `->`
HasLambdaParams(toks, cur) ==
    check(toks, cur, "IDENTIFIER")
    /\ peekNextType(toks, cur) \in {"COLON", "COMMA", "ARROW"}

lambda(toks, cur, errs, d) ==
    IF d > StackLimit THEN Throw(cur, errs, RangeError) ELSE
    Bind(consume(toks, cur, errs, "LEFT_BRACE", "Expect '{' to start lambda."),
         LAMBDA lb :
    Bind(IF HasLambdaParams(toks, lb.cur) THEN lambdaParams(toks, lb.cur, errs, <<>>, d)
         ELSE Ok(lb.cur, errs, <<>>), LAMBDA params :
    Bind(IF HasLambdaParams(toks, lb.cur)
         THEN consume(toks, params.cur, errs, "ARROW",
                      "Expect '->' after lambda parameters.")
         ELSE Ok(params.cur, errs, NullNode), LAMBDA arrow :
    Bind(blockStatements(toks, arrow.cur, errs, <<>>, d), LAMBDA ss :
    Bind(consume(toks, ss.cur, ss.errs, "RIGHT_BRACE", "Expect '}' after lambda body."),
         LAMBDA rb :
         Ok(rb.cur, rb.errs, LambdaExpr(params.node, BlockExpr(ss.node))))))))

\* the do-while of arrayLiteral over its elements
arrayElements(toks, cur, errs, elements, d) ==
    Bind(expression(toks, cur, errs, d + 1), LAMBDA e :
    IF match(toks, e.cur, {"COMMA"})
    THEN arrayElements(toks, e.cur + 1, e.errs, Append(elements, e.node), d)
    ELSE Ok(e.cur, e.errs, Append(elements, e.node)))

\* primary() has already matched one `[`; arrayLiteral consumes another
arrayLiteral(toks, cur, errs, d) ==
    IF d > StackLimit THEN Throw(cur, errs, RangeError) ELSE
    Bind(consume(toks, cur, errs, "LEFT_BRACKET", "Expect '['."), LAMBDA lb :
    Bind(IF ~check(toks, lb.cur, "RIGHT_BRACKET")
         THEN arrayElements(toks, lb.cur, errs, <<>>, d)
         ELSE Ok(lb.cur, errs, <<>>), LAMBDA es :
    Bind(consume(toks, es.cur, es.errs, "RIGHT_BRACKET", "Expect ']'."), LAMBDA rb :
         Ok(rb.cur, rb.errs, ArrayLiteralExpr(es.node)))))

\* ------------------------------------------------------- declarations
RECURSIVE genericParameters(_, _, _, _)
RECURSIVE parameters(_, _, _, _, _)
RECURSIVE valueFields(_, _, _, _, _)
RECURSIVE usePath(_, _, _, _)
RECURSIVE useItems(_, _, _, _)
RECURSIVE synchronizeLoop(_, _)

\* the do-while over `<T, U>` names, identical in functionDeclaration and
\* valueDeclaration; entered after `<` has been matched
genericParameters(toks, cur, errs, generics) ==
    Bind(consume(toks, cur, errs, "IDENTIFIER", "Expect generic parameter name."),
         LAMBDA g :
    IF match(toks, g.cur, {"COMMA"})
    THEN genericParameters(toks, g.cur + 1, errs, Append(generics, g.node))
    ELSE Bind(consume(toks, g.cur, errs, "GREATER",
                      "Expect '>' after generic parameters."),
              LAMBDA c : Ok(c.cur, errs, Append(generics, g.node))))

\* the do-while of functionDeclaration over its parameters
parameters(toks, cur, errs, params, d) ==
    Bind(consume(toks, cur, errs, "IDENTIFIER", "Expect parameter name."),
         LAMBDA paramName :
    Bind(consume(toks, paramName.cur, errs, "COLON",
                 "Expect ':' after parameter name."), LAMBDA colon :
    Bind(parseType(toks, colon.cur, errs, d + 1), LAMBDA paramType :
    LET ps == Append(params, [name |-> paramName.node, type |-> paramType.node]) IN
    IF match(toks, paramType.cur, {"COMMA"})
    THEN parameters(toks, paramType.cur + 1, errs, ps, d)
    ELSE Ok(paramType.cur, errs, ps))))

functionDeclaration(toks, cur, errs, kind, isMutating, d) ==
    IF d > StackLimit THEN Throw(cur, errs, RangeError) ELSE
    Bind(IF match(toks, cur, {"LESS"})
         THEN genericParameters(toks, cur + 1, errs, <<>>)
         ELSE Ok(cur, errs, <<>>), LAMBDA generics :
    Bind(consume(toks, generics.cur, errs, "IDENTIFIER",
                 IF kind = "function" THEN "Expect function name."
                 ELSE "Expect method name."), LAMBDA name :
    Bind(consume(toks, name.cur, errs, "LEFT_PAREN",
                 IF kind = "function" THEN "Expect '(' after function name."
                 ELSE "Expect '(' after method name."), LAMBDA lp :
    Bind(IF ~check(toks, lp.cur, "RIGHT_PAREN")
         THEN parameters(toks, lp.cur, errs, <<>>, d)
         ELSE Ok(lp.cur, errs, <<>>), LAMBDA params :
    Bind(consume(toks, params.cur, errs, "RIGHT_PAREN",
                 "Expect ')' after parameters."), LAMBDA rp :
    Bind(IF match(toks, rp.cur, {"COLON"})
         THEN parseType(toks, rp.cur + 1, errs, d + 1)
         ELSE Ok(rp.cur, errs, NullNode), LAMBDA returnType :
    IF ~check(toks, returnType.cur, "LEFT_BRACE")
    THEN Throw(returnType.cur, errs,
               error(peek(toks, returnType.cur),
                     IF kind = "function" THEN "Expect '{' before function body."
                     ELSE "Expect '{' before method body."))
    ELSE
    Bind(block(toks, returnType.cur, errs, d + 1), LAMBDA body :
         Ok(body.cur, body.errs,
            FunctionStmt(name.node, params.node, returnType.node, body.node,
                         generics.node, isMutating)))))))))

\* name, optional type, `=`, initializer, `;` -- the common tail of
\* varDeclaration and valDeclaration
variableTail(toks, cur, errs, isMutable, d) ==
    Bind(consume(toks, cur, errs, "IDENTIFIER", "Expect variable name."), LAMBDA name :
    Bind(IF match(toks, name.cur, {"COLON"})
         THEN parseType(toks, name.cur + 1, errs, d + 1)
         ELSE Ok(name.cur, errs, NullNode), LAMBDA type :
    Bind(consume(toks, type.cur, errs, "EQUAL", "Expect '=' after variable name."),
         LAMBDA eq :
    Bind(expression(toks, eq.cur, errs, d + 1), LAMBDA initializer :
    Bind(consume(toks, initializer.cur, initializer.errs, "SEMICOLON",
                 "Expect ';' after variable declaration."), LAMBDA semi :
         Ok(semi.cur, semi.errs,
            VarStmt(name.node, initializer.node, type.node, isMutable)))))))

\* a `fun` after `var` is consumed; the error built for it is dropped
varDeclaration(toks, cur, errs, d) ==
    IF d > StackLimit THEN Throw(cur, errs, RangeError) ELSE
    variableTail(toks, matchCur(toks, cur, {"FUN"}), errs, TRUE, d)

valDeclaration(toks, cur, errs, d) ==
    IF d > StackLimit THEN Throw(cur, errs, RangeError) ELSE
    variableTail(toks, cur, errs, FALSE, d)

\* the do-while of valueDeclaration over the fields; a field with neither
\* `val` nor `var` builds an error that is dropped
valueFields(toks, cur, errs, fields, d) ==
    Bind(consume(toks, matchCur(toks, cur, {"VAR", "VAL"}), errs, "IDENTIFIER",
                 "Expect field name."), LAMBDA fieldName :
    Bind(consume(toks, fieldName.cur, errs, "COLON", "Expect ':' after field name."),
         LAMBDA colon :
    Bind(parseType(toks, colon.cur, errs, d + 1), LAMBDA fieldType :
    LET fs == Append(fields, [name |-> fieldName.node, type |-> fieldType.node,
                              isMutable |-> match(toks, cur, {"VAR"})]) IN
    IF match(toks, fieldType.cur, {"COMMA"})
    THEN valueFields(toks, fieldType.cur + 1, errs, fs, d)
    ELSE Ok(fieldType.cur, errs, fs))))

\* the while loop over the body of a value type.  Its last branch builds an
\* error and drops it without advancing: the next iteration starts in the
\* same state, so the loop never ends
valueMethods(toks, cur, errs, methods, d) ==
    IF check(toks, cur, "RIGHT_BRACE") \/ isAtEnd(toks, cur) THEN Ok(cur, errs, methods)
    ELSE IF check(toks, cur, "FUN") \/ (check(toks, cur, "VAR") /\ check(toks, cur + 1, "FUN"))
    THEN
        \* `fun`, or `var fun` for a mutating method
        Bind(functionDeclaration(toks, IF check(toks, cur, "FUN") THEN cur + 1 ELSE cur + 2,
                                 errs, "method", check(toks, cur, "VAR"), d + 1),
             LAMBDA m : valueMethods(toks, m.cur, m.errs, Append(methods, m.node), d))
    ELSE IF match(toks, cur, {"VAR"}) THEN valueMethods(toks, cur + 1, errs, methods, d)
    ELSE Diverge(cur, errs)

valueDeclaration(toks, cur, errs, d) ==
    IF d > StackLimit THEN Throw(cur, errs, RangeError) ELSE
    Bind(consume(toks, cur, errs, "IDENTIFIER", "Expect value type name."), LAMBDA name :
    Bind(IF match(toks, name.cur, {"LESS"})
         THEN genericParameters(toks, name.cur + 1, errs, <<>>)
         ELSE Ok(name.cur, errs, <<>>), LAMBDA generics :
    Bind(consume(toks, generics.cur, errs, "LEFT_PAREN",
                 "Expect '(' after value type name."), LAMBDA lp :
    Bind(IF ~check(toks, lp.cur, "RIGHT_PAREN")
         THEN valueFields(toks, lp.cur, errs, <<>>, d)
         ELSE Ok(lp.cur, errs, <<>>), LAMBDA fields :
    Bind(consume(toks, fields.cur, errs, "RIGHT_PAREN",
                 "Expect ')' after value type fields."), LAMBDA rp :
    Bind(consume(toks, rp.cur, errs, "LEFT_BRACE",
                 "Expect '{' before value type body."), LAMBDA lb :
    Bind(valueMethods(toks, lb.cur, errs, <<>>, d), LAMBDA methods :
    Bind(consume(toks, methods.cur, methods.errs, "RIGHT_BRACE",
                 "Expect '}' after value type body."), LAMBDA rb :
         Ok(rb.cur, rb.errs,
            ValueStmt(name.node, fields.node, methods.node, generics.node))))))))))

\* the do-while over `{a, b}` of a use declaration, through the closing `}`
useItems(toks, cur, errs, items) ==
    Bind(consume(toks, cur, errs, "IDENTIFIER", "Expect identifier in import list."),
         LAMBDA i :
    IF match(toks, i.cur, {"COMMA"})
    THEN useItems(toks, i.cur + 1, errs, Append(items, i.node))
    ELSE Bind(consume(toks, i.cur, errs, "RIGHT_BRACE",
                      "Expect '}' after import list."),
              LAMBDA c : Ok(c.cur, errs, Append(items, i.node))))

\* the `while (match(DOT))` loop; the node is <<path, items, isTrait>>
usePath(toks, cur, errs, path) ==
    IF match(toks, cur, {"DOT"}) THEN
        IF match(toks, cur + 1, {"LEFT_BRACE"}) THEN
            Bind(useItems(toks, cur + 2, errs, <<>>), LAMBDA items :
                 Ok(items.cur, errs, <<path, items.node, FALSE>>))
        ELSE IF match(toks, cur + 1, {"TRAIT"}) THEN Ok(cur + 2, errs, <<path, <<>>, TRUE>>)
        ELSE
            Bind(consume(toks, cur + 1, errs, "IDENTIFIER",
                         "Expect identifier in use path."), LAMBDA seg :
                 usePath(toks, seg.cur, errs, Append(path, seg.node)))
    ELSE Ok(cur, errs, <<path, <<>>, FALSE>>)

useDeclaration(toks, cur, errs, d) ==
    IF d > StackLimit THEN Throw(cur, errs, RangeError) ELSE
    Bind(consume(toks, cur, errs, "IDENTIFIER", "Expect identifier in use path."),
         LAMBDA first :
    Bind(usePath(toks, first.cur, errs, <<first.node>>), LAMBDA p :
    Bind(consume(toks, p.cur, errs, "SEMICOLON", "Expect ';' after use declaration."),
         LAMBDA semi :
         Ok(semi.cur, errs, UseStmt(p.node[1], p.node[2], p.node[3])))))

\* the while loop over a trait body; like valueMethods, its else branch
\* drops the error it builds and leaves the cursor where it is
traitMethods(toks, cur, errs, methods, d) ==
    IF check(toks, cur, "RIGHT_BRACE") \/ isAtEnd(toks, cur) THEN Ok(cur, errs, methods)
    ELSE IF match(toks, cur, {"FUN"}) THEN
        Bind(functionDeclaration(toks, cur + 1, errs, "method", FALSE, d + 1),
             LAMBDA m : traitMethods(toks, m.cur, m.errs, Append(methods, m.node), d))
    ELSE Diverge(cur, errs)

traitDeclaration(toks, cur, errs, d) ==
    IF d > StackLimit THEN Throw(cur, errs, RangeError) ELSE
    Bind(consume(toks, cur, errs, "IDENTIFIER", "Expect trait name."), LAMBDA name :
    Bind(consume(toks, name.cur, errs, "LEFT_BRACE", "Expect '{' before trait body."),
         LAMBDA lb :
    Bind(traitMethods(toks, lb.cur, errs, <<>>, d), LAMBDA methods :
    Bind(consume(toks, methods.cur, methods.errs, "RIGHT_BRACE",
                 "Expect '}' after trait body."), LAMBDA rb :
         Ok(rb.cur, rb.errs, TraitStmt(name.node, methods.node))))))

\* ------------------------------------------------------- statements
getExpressionFromStmt(stmt) ==
    IF stmt.kind = "ExpressionStmt" THEN stmt.expression ELSE BlockExpr(<<stmt>>)

whileStatement(toks, cur, errs, d) ==
    IF d > StackLimit THEN Throw(cur, errs, RangeError) ELSE
    Bind(consume(toks, cur, errs, "LEFT_PAREN", "Expect '(' after 'while'."), LAMBDA lp :
    Bind(expression(toks, lp.cur, errs, d + 1), LAMBDA condition :
    Bind(consume(toks, condition.cur, condition.errs, "RIGHT_PAREN",
                 "Expect ')' after condition."), LAMBDA rp :
    Bind(statement(toks, rp.cur, rp.errs, d + 1), LAMBDA body :
         Ok(body.cur, body.errs,
            WhileStmt(condition.node, getExpressionFromStmt(body.node)))))))

forStatement(toks, cur, errs, d) ==
    IF d > StackLimit THEN Throw(cur, errs, RangeError) ELSE
    Bind(consume(toks, cur, errs, "LEFT_PAREN", "Expect '(' after 'for'."), LAMBDA lp :
    Bind(consume(toks, lp.cur, errs, "IDENTIFIER", "Expect variable name."),
         LAMBDA variable :
    Bind(consume(toks, variable.cur, errs, "COLON",
                 "Expect ':' after variable name in for loop."), LAMBDA colon :
    Bind(expression(toks, colon.cur, errs, d + 1), LAMBDA iterable :
    Bind(consume(toks, iterable.cur, iterable.errs, "RIGHT_PAREN",
                 "Expect ')' after loop clauses."), LAMBDA rp :
    Bind(statement(toks, rp.cur, rp.errs, d + 1), LAMBDA body :
         Ok(body.cur, body.errs,
            ForStmt(variable.node, iterable.node,
                    getExpressionFromStmt(body.node)))))))))

\* breakStatement and continueStatement: keyword, optional label, `;`
jumpStatement(toks, cur, errs, isBreak) ==
    LET keyword == previous(toks, cur)
        label == IF check(toks, cur, "IDENTIFIER") THEN peek(toks, cur) ELSE NullNode
    IN Bind(consume(toks, IF check(toks, cur, "IDENTIFIER") THEN cur + 1 ELSE cur, errs,
                    "SEMICOLON",
                    IF isBreak THEN "Expect ';' after 'break'."
                    ELSE "Expect ';' after 'continue'."), LAMBDA semi :
            Ok(semi.cur, errs,
               IF isBreak THEN BreakStmt(keyword, label)
               ELSE ContinueStmt(keyword, label)))

breakStatement(toks, cur, errs, d) ==
    IF d > StackLimit THEN Throw(cur, errs, RangeError) ELSE
    jumpStatement(toks, cur, errs, TRUE)

continueStatement(toks, cur, errs, d) ==
    IF d > StackLimit THEN Throw(cur, errs, RangeError) ELSE
    jumpStatement(toks, cur, errs, FALSE)

returnStatement(toks, cur, errs, d) ==
    IF d > StackLimit THEN Throw(cur, errs, RangeError) ELSE
    Bind(IF ~check(toks, cur, "SEMICOLON") /\ ~check(toks, cur, "RIGHT_BRACE")
         THEN expression(toks, cur, errs, d + 1)
         ELSE Ok(cur, errs, NullNode), LAMBDA value :
    IF check(toks, value.cur, "SEMICOLON")
    THEN Ok(value.cur + 1, value.errs, ReturnStmt(previous(toks, cur), value.node))
    ELSE IF ~check(toks, value.cur, "RIGHT_BRACE")
    THEN Throw(value.cur, value.errs,
               error(peek(toks, value.cur), "Expect ';' after return value."))
    ELSE Ok(value.cur, value.errs, ReturnStmt(previous(toks, cur), value.node)))

expressionStatement(toks, cur, errs, d) ==
    IF d > StackLimit THEN Throw(cur, errs, RangeError) ELSE
    Bind(expression(toks, cur, errs, d + 1), LAMBDA expr :
    IF expr.node.kind \in {"BlockExpr", "IfExpr", "WhenExpr"}
    THEN Ok(matchCur(toks, expr.cur, {"SEMICOLON"}), expr.errs, ExpressionStmt(expr.node))
    ELSE IF check(toks, expr.cur, "RIGHT_BRACE")
    THEN Ok(expr.cur, expr.errs, ExpressionStmt(expr.node))
    ELSE
        Bind(consume(toks, expr.cur, expr.errs, "SEMICOLON",
                     "Expect ';' after expression."), LAMBDA semi :
             Ok(semi.cur, semi.errs, ExpressionStmt(expr.node))))

statement(toks, cur, errs, d) ==
    IF d > StackLimit THEN Throw(cur, errs, RangeError) ELSE
    IF match(toks, cur, {"WHILE"}) THEN whileStatement(toks, cur + 1, errs, d + 1)
    ELSE IF match(toks, cur, {"FOR"}) THEN forStatement(toks, cur + 1, errs, d + 1)
    ELSE IF match(toks, cur, {"BREAK"}) THEN breakStatement(toks, cur + 1, errs, d + 1)
    ELSE IF match(toks, cur, {"CONTINUE"}) THEN continueStatement(toks, cur + 1, errs, d + 1)
    ELSE IF match(toks, cur, {"RETURN"}) THEN returnStatement(toks, cur + 1, errs, d + 1)
    ELSE expressionStatement(toks, cur, errs, d + 1)

\* ------------------------------------------------------- error recovery
\* a keyword set that also stops synchronization at the other declarations
SyncKeywordsWide ==
    {"FUN", "VAL", "VAR", "FOR", "IF", "WHILE", "RETURN", "VALUE", "TRAIT", "USE"}
SyncKeywords == {"FUN", "VAL", "VAR", "FOR", "IF", "WHILE", "RETURN"}

\* the while loop of synchronize; yields the cursor it stops at
synchronizeLoop(toks, cur) ==
    IF isAtEnd(toks, cur) THEN cur
    ELSE IF previous(toks, cur).type = "SEMICOLON" THEN cur
    ELSE IF peek(toks, cur).type \in SyncKeywords THEN cur
    ELSE synchronizeLoop(toks, advance(toks, cur))

synchronize(toks, cur) == synchronizeLoop(toks, advance(toks, cur))

\* the try body of declaration()
declarationBody(toks, cur, errs, d) ==
    IF match(toks, cur, {"FUN"})
        THEN functionDeclaration(toks, cur + 1, errs, "function", FALSE, d + 1)
    ELSE IF match(toks, cur, {"VAR"}) THEN varDeclaration(toks, cur + 1, errs, d + 1)
    ELSE IF match(toks, cur, {"VAL"}) THEN valDeclaration(toks, cur + 1, errs, d + 1)
    ELSE IF match(toks, cur, {"VALUE"}) THEN valueDeclaration(toks, cur + 1, errs, d + 1)
    ELSE IF match(toks, cur, {"USE"}) THEN useDeclaration(toks, cur + 1, errs, d + 1)
    ELSE IF match(toks, cur, {"TRAIT"}) THEN traitDeclaration(toks, cur + 1, errs, d + 1)
    ELSE statement(toks, cur, errs, d + 1)

\* a catch clause that records the error and does not synchronize
declarationCatchInPlace(toks, r) ==
    IF r.st = "throw"
    THEN Ok(r.cur, Append(r.errs, r.exc), NullNode)
    ELSE r

\* `catch (error: any)` around the try body, whose outcome is r: whatever
\* was thrown is pushed, the parser synchronizes and declaration() returns
\* null
declarationCatch(toks, r) ==
    IF r.st = "throw"
    THEN Ok(synchronize(toks, r.cur), Append(r.errs, r.exc), NullNode)
    ELSE r

declaration(toks, cur, errs, d) ==
    IF d > StackLimit THEN Throw(cur, errs, RangeError) ELSE
    declarationCatch(toks, declarationBody(toks, cur, errs, d))

\* ------------------------------------------------------- Parser.parse
RECURSIVE parseLoop(_, _, _, _)

\* parse() as a function of the parser's fields: the result's node is the
\* returned statement list
parseLoop(toks, cur, errs, stmts) ==
    IF isAtEnd(toks, cur) THEN Ok(cur, errs, stmts)
    ELSE
        Bind(declaration(toks, cur, errs, 1), LAMBDA decl :
             parseLoop(toks, decl.cur, decl.errs,
                       IF decl.node # NullNode THEN Append(stmts, decl.node)
                       ELSE stmts))

parse(toks) == parseLoop(toks, 0, <<>>, <<>>)

\* ------------------------------------------------------- AstPrinter
\* The printed text is kept as the sequence of lexemes the lexer splits it
\* into: `(stmt x)` is <<"(", "stmt", "x", ")">>.

\* Number.prototype.toString of a literal's value (held in tenths)
NumberToString(n) ==
    CASE n = 10 -> "1" [] n = 20 -> "2" [] n = 30 -> "3" [] n = 25 -> "2.5"
      [] OTHER -> "0"

\* lexemes.join(sep)
RECURSIVE joinLexemes(_, _)
joinLexemes(ts, sep) ==
    IF ts = <<>> THEN <<>>
    ELSE IF Len(ts) = 1 THEN <<ts[1].lexeme>>
    ELSE <<ts[1].lexeme>> \o sep \o joinLexemes(Tail(ts), sep)

\* the visit methods of the type nodes
RECURSIVE printType(_)
RECURSIVE printTypes(_, _)
printTypes(types, sep) ==
    IF types = <<>> THEN <<>>
    ELSE IF Len(types) = 1 THEN printType(types[1])
    ELSE printType(types[1]) \o sep \o printTypes(Tail(types), sep)
printType(type) ==
    CASE type.kind = "NamedType" ->
            <<type.name.lexeme>> \o
            (IF Len(type.generics) > 0
             THEN <<"<">> \o printTypes(type.generics, <<",">>) \o <<">">> ELSE <<>>)
      [] type.kind = "UnionType" -> <<"(">> \o printTypes(type.types, <<"|">>) \o <<")">>
      [] type.kind = "ArrayType" -> printType(type.elementType) \o <<"[", "]">>
      [] type.kind = "OptionalType" -> printType(type.innerType) \o <<"?">>

\* the visit methods of expressions and statements; printEach is
\* nodes.map(n => ...).join(sep) over statements, expressions, call
\* arguments, parameters, fields and when entries.  AstPrinter has no
\* method for a TraitStmt.
RECURSIVE print(_)
RECURSIVE printEach(_, _)
printEach(nodes, sep) ==
    IF nodes = <<>> THEN <<>>
    ELSE print(nodes[1]) \o (IF Len(nodes) = 1 THEN <<>> ELSE sep \o printEach(Tail(nodes), sep))
print(node) ==
    IF "kind" \notin DOMAIN node THEN
        \* a call argument, a parameter or a field
        IF "value" \in DOMAIN node
        THEN (IF node.name # NullNode THEN <<node.name.lexeme, "=">> ELSE <<>>) \o print(node.value)
        ELSE (IF "isMutable" \in DOMAIN node
              THEN <<IF node.isMutable THEN "var" ELSE "val">> ELSE <<>>)
             \o <<node.name.lexeme>>
             \o (IF node.type # NullNode THEN <<":">> \o printType(node.type) ELSE <<>>)
    ELSE
    CASE node.kind = "BlockExpr" -> <<"(", "block">> \o printEach(node.statements, <<>>) \o <<")">>
      [] node.kind = "AssignExpr" -> <<"(", "assign", node.name.lexeme>> \o print(node.value) \o <<")">>
      [] node.kind \in {"BinaryExpr", "LogicalExpr"} ->
            <<"(", node.operator.lexeme>> \o print(node.left) \o print(node.right) \o <<")">>
      [] node.kind = "CallExpr" ->
            <<"(", "call">> \o print(node.callee) \o printEach(node.arguments, <<>>) \o <<")">>
      [] node.kind = "GetExpr" ->
            <<"(", "get">> \o (IF node.isSafe THEN <<"?">> ELSE <<>>)
                \o print(node.object) \o <<node.name.lexeme, ")">>
      [] node.kind = "GroupingExpr" -> <<"(", "group">> \o print(node.expression) \o <<")">>
      [] node.kind = "LiteralExpr" ->
            (CASE node.value.lt = "null" -> <<"nil">>
               [] node.value.lt = "string" ->
                    <<CHOOSE w \in DOMAIN StringLexemes : StringLexemes[w] = node.value.s>>
               [] node.value.lt = "number" -> <<NumberToString(node.value.n)>>
               [] node.value.lt = "boolean" -> <<IF node.value.n = 1 THEN "true" ELSE "false">>)
      [] node.kind = "SetExpr" ->
            <<"(", "set">> \o (IF node.isSafe THEN <<"?">> ELSE <<>>)
                \o print(node.object) \o <<node.name.lexeme>> \o print(node.value) \o <<")">>
      [] node.kind = "ThisExpr" -> <<"this">>
      [] node.kind = "UnaryExpr" -> <<"(", node.operator.lexeme>> \o print(node.right) \o <<")">>
      [] node.kind = "VariableExpr" -> <<node.name.lexeme>>
      [] node.kind = "IfExpr" ->
            <<"(", "if">> \o print(node.condition) \o print(node.thenBranch)
                \o (IF node.elseBranch # NullNode THEN print(node.elseBranch) ELSE <<>>)
                \o <<")">>
      [] node.kind = "WhenExpr" ->
            <<"(", "when">>
                \o (IF node.subject # NullNode THEN print(node.subject) ELSE <<>>)
                \o printEach(node.entries, <<>>)
                \o (IF node.elseBranch # NullNode
                    THEN <<"[", "else", "->">> \o print(node.elseBranch) \o <<"]">> ELSE <<>>)
                \o <<")">>
      [] node.kind = "WhenEntry" ->
            <<"[">> \o printEach(node.conditions, <<",">>) \o <<"->">> \o print(node.body) \o <<"]">>
      [] node.kind = "LambdaExpr" ->
            <<"(", "lambda", "(">> \o printEach(node.params, <<>>) \o <<")">>
                \o print(node.body) \o <<")">>
      [] node.kind = "ArrayLiteralExpr" -> <<"(", "array">> \o printEach(node.elements, <<>>) \o <<")">>
      [] node.kind = "IndexGetExpr" ->
            <<"(", "index">> \o print(node.object) \o print(node.index) \o <<")">>
      [] node.kind = "IndexSetExpr" ->
            <<"(", "index", "-", "set">> \o print(node.object) \o print(node.index)
                \o print(node.value) \o <<")">>
      [] node.kind = "PropagateExpr" -> <<"(", "propagate">> \o print(node.expression) \o <<")">>
      [] node.kind = "CastExpr" ->
            <<"(", "cast">> \o print(node.expression) \o printType(node.targetType) \o <<")">>
      [] node.kind = "ExpressionStmt" -> <<"(", "stmt">> \o print(node.expression) \o <<")">>
      [] node.kind = "FunctionStmt" ->
            <<"(">> \o (IF node.isMutating THEN <<"var", "-", "fun">> ELSE <<"fun">>)
                \o <<node.name.lexeme>>
                \o (IF Len(node.generics) > 0
                    THEN <<"<">> \o joinLexemes(node.generics, <<",">>) \o <<">">> ELSE <<>>)
                \o <<"(">> \o printEach(node.params, <<>>) \o <<")">>
                \o (IF node.returnType # NullNode
                    THEN <<":">> \o printType(node.returnType) ELSE <<>>)
                \o print(node.body) \o <<")">>
      [] node.kind = "ReturnStmt" ->
            IF node.value # NullNode THEN <<"(", "return">> \o print(node.value) \o <<")">>
            ELSE <<"(", "return", ")">>
      [] node.kind = "VarStmt" ->
            <<"(", IF node.isMutable THEN "var" ELSE "val", node.name.lexeme>>
                \o (IF node.type # NullNode THEN <<":">> \o printType(node.type) ELSE <<>>)
                \o print(node.initializer) \o <<")">>
      [] node.kind = "WhileStmt" ->
            <<"(", "while">> \o print(node.condition) \o print(node.body) \o <<")">>
      [] node.kind = "ForStmt" ->
            <<"(", "for", node.variable.lexeme, "in">> \o print(node.iterable)
                \o print(node.body) \o <<")">>
      [] node.kind \in {"BreakStmt", "ContinueStmt"} ->
            <<"(", node.keyword.lexeme>>
                \o (IF node.label # NullNode THEN <<node.label.lexeme>> ELSE <<>>) \o <<")">>
      [] node.kind = "ValueStmt" ->
            <<"(", "value", node.name.lexeme>>
                \o (IF Len(node.generics) > 0
                    THEN <<"<">> \o joinLexemes(node.generics, <<",">>) \o <<">">> ELSE <<>>)
                \o <<"(">> \o printEach(node.fields, <<>>) \o <<")">>
                \o <<"(">> \o printEach(node.methods, <<>>) \o <<")", ")">>
      [] node.kind = "UseStmt" ->
            <<"(", "use">> \o (IF node.isTrait THEN <<"trait">> ELSE <<>>)
                \o joinLexemes(node.path, <<".">>)
                \o (IF Len(node.items) > 0
                    THEN <<".", "{">> \o joinLexemes(node.items, <<",">>) \o <<"}">> ELSE <<>>)
                \o <<")">>

\* ------------------------------------------------------- Checker
\* A Checker method's result carries the fields it may have changed:
\* `env` is this.environment, the chain of scopes from the global one
\* (first) to the current one (last); `fn` is this.currentFunction; `type`
\* is the TypeInfo returned.  A raised exception leaves both fields as
\* they were at the throw.
CheckerError(token, message) ==
    [kind |-> "CheckerError", token |-> token, message |-> message]

CkOk(env, fn, type) ==
    [st |-> "ok", env |-> env, fn |-> fn, type |-> type, exc |-> NoExc]
CkThrow(env, fn, exc) ==
    [st |-> "throw", env |-> env, fn |-> fn, type |-> NullNode, exc |-> exc]

\* new Environment(): a scope that binds no name.  Making
\* `new Environment(this.environment)` the current scope appends one to the
\* chain; `this.environment = previousEnv` cuts the chain back to the length
\* it had when previousEnv was taken
EmptyScope == << >>

\* Environment.define on the current scope
define(env, name, info) ==
    [env EXCEPT ![Len(env)] =
        [n \in (DOMAIN env[Len(env)]) \cup {name} |->
            IF n = name THEN info ELSE env[Len(env)][n]]]

\* Environment.get, looking from scope i outwards
RECURSIVE get(_, _, _, _)
get(env, fn, i, name) ==
    IF i = 0
    THEN CkThrow(env, fn,
                 CheckerError(name, <<"Undefined variable '", name.lexeme, "'.">>))
    ELSE IF name.lexeme \in DOMAIN env[i] THEN CkOk(env, fn, env[i][name.lexeme])
    ELSE get(env, fn, i - 1, name)

\* the text typeToString builds, as the sequence of the pieces it joins
RECURSIVE typeToString(_)
typeToString(type) ==
    IF type.kind = "NamedType" THEN <<type.name.lexeme>>
    ELSE IF type.kind = "ArrayType" THEN typeToString(type.elementType) \o <<"[]">>
    ELSE <<"Type">>

\* the last test compares the JSON texts of the two nodes, which are equal
\* exactly when the nodes are
isTypeCompatible(target, source) ==
    IF target.kind = "NamedType" /\ source.kind = "NamedType"
    THEN target.name.lexeme = source.name.lexeme
    ELSE IF typeToString(target) # <<"Type">> /\ typeToString(source) # <<"Type">>
    THEN typeToString(target) = typeToString(source)
    ELSE target = source

\* `Expected type ${expected}, but got ${actual}.`
ExpectedButGot(expected, actual) ==
    <<"Expected type ">> \o typeToString(expected) \o <<", but got ">>
    \o typeToString(actual) \o <<".">>

\* a checkType that lets every pair of types pass
checkTypeLenient(env, fn, expected, actual, token) == CkOk(env, fn, NullNode)

checkType(env, fn, expected, actual, token) ==
    IF ~isTypeCompatible(expected, actual)
    THEN CkThrow(env, fn, CheckerError(token, ExpectedButGot(expected, actual)))
    ELSE CkOk(env, fn, NullNode)

\* new NamedType(new Token(IDENTIFIER, name, null, line, column))
BuiltinType(name, line, column) ==
    NamedType(Token("IDENTIFIER", name, NoLiteral, line, column), <<>>)
getUnitType(line) == BuiltinType("Unit", line, 0)
getBooleanType == BuiltinType("Boolean", 0, 0)

\* the decimal text of a count, as template literals print it
NumberText(n) ==
    CASE n = 0 -> "0" [] n = 1 -> "1" [] n = 2 -> "2" [] n = 3 -> "3"
      [] n = 4 -> "4" [] OTHER -> "many"

ComparisonOperators ==
    {"EQUAL_EQUAL", "BANG_EQUAL", "GREATER", "GREATER_EQUAL", "LESS", "LESS_EQUAL"}

RECURSIVE evaluate(_, _, _, _)
RECURSIVE execute(_, _, _, _)
RECURSIVE defineParams(_, _, _)
RECURSIVE blockLoop(_, _, _, _, _, _)
RECURSIVE callArguments(_, _, _, _, _, _)

\* -- StmtVisitor
\* a visitVarStmt that checks the initializer against the declared type for
\* mutable variables only
visitVarStmtFrozen(stmt, env, fn, d) ==
    Bind(IF stmt.initializer # NullNode
         THEN evaluate(stmt.initializer, env, fn, d + 1)
         ELSE CkOk(env, fn, NullNode), LAMBDA initializerType :
    IF stmt.type # NullNode THEN
        Bind(IF initializerType.type # NullNode /\ stmt.isMutable
             THEN checkType(initializerType.env, initializerType.fn, stmt.type,
                            initializerType.type, stmt.name)
             ELSE initializerType, LAMBDA c :
             CkOk(define(c.env, stmt.name.lexeme, stmt.type), c.fn, NullNode))
    ELSE IF initializerType.type # NullNode THEN
        CkOk(define(initializerType.env, stmt.name.lexeme, initializerType.type),
             initializerType.fn, NullNode)
    ELSE CkThrow(initializerType.env, initializerType.fn,
                 CheckerError(stmt.name,
                     <<"Variable must have a type annotation or an initializer.">>)))

\* a visitVarStmt that binds the name to the initializer's type although a
\* type is declared
visitVarStmtInferred(stmt, env, fn, d) ==
    Bind(IF stmt.initializer # NullNode
         THEN evaluate(stmt.initializer, env, fn, d + 1)
         ELSE CkOk(env, fn, NullNode), LAMBDA initializerType :
    IF stmt.type # NullNode THEN
        Bind(IF initializerType.type # NullNode
             THEN checkType(initializerType.env, initializerType.fn, stmt.type,
                            initializerType.type, stmt.name)
             ELSE initializerType, LAMBDA c :
             CkOk(define(c.env, stmt.name.lexeme,
                         IF initializerType.type # NullNode THEN initializerType.type
                         ELSE stmt.type), c.fn, NullNode))
    ELSE IF initializerType.type # NullNode THEN
        CkOk(define(initializerType.env, stmt.name.lexeme, initializerType.type),
             initializerType.fn, NullNode)
    ELSE CkThrow(initializerType.env, initializerType.fn,
                 CheckerError(stmt.name,
                     <<"Variable must have a type annotation or an initializer.">>)))

visitVarStmt(stmt, env, fn, d) ==
    Bind(IF stmt.initializer # NullNode
         THEN evaluate(stmt.initializer, env, fn, d + 1)
         ELSE CkOk(env, fn, NullNode), LAMBDA initializerType :
    IF stmt.type # NullNode THEN
        Bind(IF initializerType.type # NullNode
             THEN checkType(initializerType.env, initializerType.fn, stmt.type,
                            initializerType.type, stmt.name)
             ELSE initializerType, LAMBDA c :
             CkOk(define(c.env, stmt.name.lexeme, stmt.type), c.fn, NullNode))
    ELSE IF initializerType.type # NullNode THEN
        CkOk(define(initializerType.env, stmt.name.lexeme, initializerType.type),
             initializerType.fn, NullNode)
    ELSE CkThrow(initializerType.env, initializerType.fn,
                 CheckerError(stmt.name,
                     <<"Variable must have a type annotation or an initializer.">>)))

\* the loop of visitFunctionStmt that defines the parameters
defineParams(env, params, i) ==
    IF i > Len(params) THEN env
    ELSE defineParams(define(env, params[i].name.lexeme, params[i].type), params, i + 1)

\* the two assignments that end visitFunctionStmt are reached only when
\* nothing above them raised
\* a visitFunctionStmt that checks a Unit body against the return type too
visitFunctionStmtStrict(stmt, env, fn, d) ==
    Bind(evaluate(stmt.body,
                  defineParams(Append(define(env, stmt.name.lexeme, stmt), EmptyScope),
                               stmt.params, 1),
                  stmt, d + 1), LAMBDA bodyType :
    Bind(IF stmt.returnType # NullNode
         THEN checkType(bodyType.env, bodyType.fn, stmt.returnType, bodyType.type,
                        stmt.name)
         ELSE bodyType, LAMBDA c :
         CkOk(SubSeq(c.env, 1, Len(env)), fn, NullNode)))

visitFunctionStmt(stmt, env, fn, d) ==
    Bind(evaluate(stmt.body,
                  defineParams(Append(define(env, stmt.name.lexeme, stmt), EmptyScope),
                               stmt.params, 1),
                  stmt, d + 1), LAMBDA bodyType :
    Bind(IF stmt.returnType # NullNode /\ typeToString(bodyType.type) # <<"Unit">>
         THEN checkType(bodyType.env, bodyType.fn, stmt.returnType, bodyType.type,
                        stmt.name)
         ELSE bodyType, LAMBDA c :
         CkOk(SubSeq(c.env, 1, Len(env)), fn, NullNode)))

visitReturnStmt(stmt, env, fn, d) ==
    IF fn = NullNode
    THEN CkThrow(env, fn,
                 CheckerError(stmt.keyword, <<"Can't return from top-level code.">>))
    ELSE
    Bind(IF stmt.value # NullNode THEN evaluate(stmt.value, env, fn, d + 1)
         ELSE CkOk(env, fn, getUnitType(stmt.keyword.line)), LAMBDA valueType :
    IF valueType.fn.returnType # NullNode
    THEN Bind(checkType(valueType.env, valueType.fn, valueType.fn.returnType,
                        valueType.type, stmt.keyword),
              LAMBDA c : CkOk(c.env, c.fn, NullNode))
    ELSE CkOk(valueType.env, valueType.fn, NullNode))

visitExpressionStmt(stmt, env, fn, d) ==
    Bind(evaluate(stmt.expression, env, fn, d + 1),
         LAMBDA e : CkOk(e.env, e.fn, NullNode))

visitWhileStmt(stmt, env, fn, d) ==
    Bind(evaluate(stmt.condition, env, fn, d + 1), LAMBDA conditionType :
    Bind(checkType(conditionType.env, conditionType.fn, getBooleanType,
                   conditionType.type, Token("WHILE", "while", NoLiteral, 0, 0)),
         LAMBDA c :
    Bind(evaluate(stmt.body, c.env, c.fn, d + 1),
         LAMBDA body : CkOk(body.env, body.fn, NullNode))))

visitForStmt(stmt, env, fn, d) ==
    Bind(evaluate(stmt.body, env, fn, d + 1),
         LAMBDA body : CkOk(body.env, body.fn, NullNode))

\* visitBreakStmt, visitContinueStmt, visitValueStmt, visitUseStmt,
\* visitTraitStmt: empty bodies
visitNothing(stmt, env, fn, d) == CkOk(env, fn, NullNode)

\* -- ExprVisitor
\* the loop of visitBlockExpr over the statements of the block
blockLoop(stmts, i, env, fn, lastType, d) ==
    IF i > Len(stmts) THEN CkOk(env, fn, lastType)
    ELSE
    Bind(IF stmts[i].kind = "ExpressionStmt"
         THEN evaluate(stmts[i].expression, env, fn, d + 1)
         ELSE execute(stmts[i], env, fn, d + 1), LAMBDA r :
         blockLoop(stmts, i + 1, r.env, r.fn,
                   IF stmts[i].kind = "ExpressionStmt" THEN r.type ELSE getUnitType(0),
                   d))

\* the assignment that ends visitBlockExpr is reached only when no
\* statement of the block raised
visitBlockExpr(expr, env, fn, d) ==
    Bind(blockLoop(expr.statements, 1, Append(env, EmptyScope), fn, getUnitType(0), d),
         LAMBDA r : CkOk(SubSeq(r.env, 1, Len(env)), r.fn, r.type))

visitLiteralExpr(expr, env, fn, d) ==
    CkOk(env, fn,
         IF expr.value.lt = "number"
         THEN (IF expr.value.n % 10 = 0 THEN BuiltinType("i32", 0, 0)
               ELSE BuiltinType("f32", 0, 0))
         ELSE IF expr.value.lt = "string" THEN BuiltinType("String", 0, 0)
         ELSE IF expr.value.lt = "boolean" THEN BuiltinType("Boolean", 0, 0)
         ELSE IF expr.value.lt = "null" THEN BuiltinType("Null", 0, 0)
         ELSE BuiltinType("Dynamic", 0, 0))

visitVariableExpr(expr, env, fn, d) ==
    Bind(get(env, fn, Len(env), expr.name), LAMBDA type :
         IF type.type.kind = "FunctionStmt"
         THEN CkOk(env, fn, BuiltinType("Function", expr.name.line, expr.name.column))
         ELSE type)

\* the loop of visitCallExpr over the arguments
callArguments(expr, func, i, env, fn, d) ==
    IF i > Len(expr.arguments) THEN CkOk(env, fn, NullNode)
    ELSE
    Bind(evaluate(expr.arguments[i].value, env, fn, d + 1), LAMBDA argType :
    Bind(checkType(argType.env, argType.fn, func.params[i].type, argType.type,
                   expr.paren), LAMBDA c :
         callArguments(expr, func, i + 1, c.env, c.fn, d)))

\* a variant of visitCallExpr that compares the counts only when the call
\* has more arguments than the function has parameters
visitCallExprShort(expr, env, fn, d) ==
    Bind(IF expr.callee.kind = "VariableExpr"
         THEN get(env, fn, Len(env), expr.callee.name)
         ELSE Bind(evaluate(expr.callee, env, fn, d + 1),
                   LAMBDA calleeType : CkOk(calleeType.env, calleeType.fn, NullNode)),
         LAMBDA calleeInfo :
    IF calleeInfo.type.kind = "FunctionStmt" THEN
        IF Len(expr.arguments) > Len(calleeInfo.type.params)
        THEN CkThrow(calleeInfo.env, calleeInfo.fn,
                     CheckerError(expr.paren,
                         <<"Expected ", NumberText(Len(calleeInfo.type.params)),
                           " arguments but got ", NumberText(Len(expr.arguments)),
                           ".">>))
        ELSE Bind(callArguments(expr, calleeInfo.type, 1, calleeInfo.env,
                                calleeInfo.fn, d), LAMBDA a :
                  CkOk(a.env, a.fn,
                       IF calleeInfo.type.returnType # NullNode
                       THEN calleeInfo.type.returnType ELSE getUnitType(0)))
    ELSE CkThrow(calleeInfo.env, calleeInfo.fn,
                 CheckerError(expr.paren, <<"Can only call named functions.">>)))

visitCallExpr(expr, env, fn, d) ==
    Bind(IF expr.callee.kind = "VariableExpr"
         THEN get(env, fn, Len(env), expr.callee.name)
         ELSE Bind(evaluate(expr.callee, env, fn, d + 1),
                   LAMBDA calleeType : CkOk(calleeType.env, calleeType.fn, NullNode)),
         LAMBDA calleeInfo :
    IF calleeInfo.type.kind = "FunctionStmt" THEN
        IF Len(expr.arguments) # Len(calleeInfo.type.params)
        THEN CkThrow(calleeInfo.env, calleeInfo.fn,
                     CheckerError(expr.paren,
                         <<"Expected ", NumberText(Len(calleeInfo.type.params)),
                           " arguments but got ", NumberText(Len(expr.arguments)),
                           ".">>))
        ELSE Bind(callArguments(expr, calleeInfo.type, 1, calleeInfo.env,
                                calleeInfo.fn, d), LAMBDA a :
                  CkOk(a.env, a.fn,
                       IF calleeInfo.type.returnType # NullNode
                       THEN calleeInfo.type.returnType ELSE getUnitType(0)))
    ELSE CkThrow(calleeInfo.env, calleeInfo.fn,
                 CheckerError(expr.paren, <<"Can only call named functions.">>)))

visitAssignExpr(expr, env, fn, d) ==
    Bind(get(env, fn, Len(env), expr.name), LAMBDA variableType :
    IF variableType.type.kind = "FunctionStmt"
    THEN CkThrow(env, fn, CheckerError(expr.name, <<"Cannot assign to a function.">>))
    ELSE
    Bind(evaluate(expr.value, env, fn, d + 1), LAMBDA valueType :
    Bind(checkType(valueType.env, valueType.fn, variableType.type, valueType.type,
                   expr.name), LAMBDA c :
         CkOk(c.env, c.fn, variableType.type))))

visitBinaryExpr(expr, env, fn, d) ==
    Bind(evaluate(expr.left, env, fn, d + 1), LAMBDA left :
    Bind(evaluate(expr.right, left.env, left.fn, d + 1), LAMBDA right :
    Bind(checkType(right.env, right.fn, left.type, right.type, expr.operator),
         LAMBDA c :
         CkOk(c.env, c.fn,
              IF expr.operator.type \in ComparisonOperators
              THEN getBooleanType ELSE left.type))))

visitLogicalExpr(expr, env, fn, d) ==
    Bind(evaluate(expr.left, env, fn, d + 1), LAMBDA left :
    Bind(evaluate(expr.right, left.env, left.fn, d + 1), LAMBDA right :
         CkOk(right.env, right.fn, getBooleanType)))

\* visitGroupingExpr and visitPropagateExpr evaluate expr.expression
visitInner(expr, env, fn, d) == evaluate(expr.expression, env, fn, d + 1)

visitUnaryExpr(expr, env, fn, d) == evaluate(expr.right, env, fn, d + 1)

\* a visitIfExpr that checks the then branch before the condition's type
visitIfExprBranchFirst(expr, env, fn, d) ==
    Bind(evaluate(expr.condition, env, fn, d + 1), LAMBDA conditionType :
    Bind(evaluate(expr.thenBranch, conditionType.env, conditionType.fn, d + 1),
         LAMBDA thenType :
    Bind(checkType(thenType.env, thenType.fn, getBooleanType,
                   conditionType.type,
                   IF expr.condition.kind = "VariableExpr" THEN expr.condition.name
                   ELSE Token("IF", "if", NoLiteral, 0, 0)), LAMBDA c :
    IF expr.elseBranch = NullNode THEN thenType
    ELSE
    Bind(evaluate(expr.elseBranch, thenType.env, thenType.fn, d + 1), LAMBDA elseType :
         IF ~isTypeCompatible(thenType.type, elseType.type)
         THEN CkThrow(elseType.env, elseType.fn,
                      CheckerError(Token("ELSE", "else", NoLiteral, 0, 0),
                          <<"If branches must return compatible types. Got ">>
                          \o typeToString(thenType.type) \o <<" and ">>
                          \o typeToString(elseType.type) \o <<".">>))
         ELSE CkOk(elseType.env, elseType.fn, thenType.type)))))

visitIfExpr(expr, env, fn, d) ==
    Bind(evaluate(expr.condition, env, fn, d + 1), LAMBDA conditionType :
    Bind(checkType(conditionType.env, conditionType.fn, getBooleanType,
                   conditionType.type,
                   IF expr.condition.kind = "VariableExpr" THEN expr.condition.name
                   ELSE Token("IF", "if", NoLiteral, 0, 0)), LAMBDA c :
    Bind(evaluate(expr.thenBranch, c.env, c.fn, d + 1), LAMBDA thenType :
    IF expr.elseBranch = NullNode THEN thenType
    ELSE
    Bind(evaluate(expr.elseBranch, thenType.env, thenType.fn, d + 1), LAMBDA elseType :
         IF ~isTypeCompatible(thenType.type, elseType.type)
         THEN CkThrow(elseType.env, elseType.fn,
                      CheckerError(Token("ELSE", "else", NoLiteral, 0, 0),
                          <<"If branches must return compatible types. Got ">>
                          \o typeToString(thenType.type) \o <<" and ">>
                          \o typeToString(elseType.type) \o <<".">>))
         ELSE CkOk(elseType.env, elseType.fn, thenType.type)))))

\* visitGetExpr, visitSetExpr, visitThisExpr, visitWhenExpr, visitLambdaExpr,
\* visitArrayLiteralExpr, visitIndexGetExpr, visitIndexSetExpr
visitUnit(expr, env, fn, d) == CkOk(env, fn, getUnitType(0))

visitCastExpr(expr, env, fn, d) == CkOk(env, fn, expr.targetType)

\* evaluate is expr.accept(this), which is the visit method of the node's
\* class: the visitor runs two frames below its caller
evaluate(expr, env, fn, d) ==
    IF d + 2 > StackLimit THEN CkThrow(env, fn, RangeError) ELSE
    CASE expr.kind = "AssignExpr" -> visitAssignExpr(expr, env, fn, d + 2)
      [] expr.kind = "BinaryExpr" -> visitBinaryExpr(expr, env, fn, d + 2)
      [] expr.kind = "CallExpr" -> visitCallExpr(expr, env, fn, d + 2)
      [] expr.kind = "LiteralExpr" -> visitLiteralExpr(expr, env, fn, d + 2)
      [] expr.kind = "LogicalExpr" -> visitLogicalExpr(expr, env, fn, d + 2)
      [] expr.kind = "UnaryExpr" -> visitUnaryExpr(expr, env, fn, d + 2)
      [] expr.kind = "VariableExpr" -> visitVariableExpr(expr, env, fn, d + 2)
      [] expr.kind = "BlockExpr" -> visitBlockExpr(expr, env, fn, d + 2)
      [] expr.kind = "IfExpr" -> visitIfExpr(expr, env, fn, d + 2)
      [] expr.kind = "CastExpr" -> visitCastExpr(expr, env, fn, d + 2)
      [] expr.kind \in {"GroupingExpr", "PropagateExpr"} ->
            visitInner(expr, env, fn, d + 2)
      [] OTHER -> visitUnit(expr, env, fn, d + 2)

\* execute is stmt.accept(this)
execute(stmt, env, fn, d) ==
    IF d + 2 > StackLimit THEN CkThrow(env, fn, RangeError) ELSE
    CASE stmt.kind = "ExpressionStmt" -> visitExpressionStmt(stmt, env, fn, d + 2)
      [] stmt.kind = "FunctionStmt" -> visitFunctionStmt(stmt, env, fn, d + 2)
      [] stmt.kind = "ReturnStmt" -> visitReturnStmt(stmt, env, fn, d + 2)
      [] stmt.kind = "VarStmt" -> visitVarStmt(stmt, env, fn, d + 2)
      [] stmt.kind = "WhileStmt" -> visitWhileStmt(stmt, env, fn, d + 2)
      [] stmt.kind = "ForStmt" -> visitForStmt(stmt, env, fn, d + 2)
      [] OTHER -> visitNothing(stmt, env, fn, d + 2)

\* the catch clause of Checker.check: a CheckerError is appended to the
\* list and check returns; any other exception is thrown on to the caller
checkCatch(r, errs) ==
    IF r.exc.kind = "CheckerError"
    THEN [st |-> "ok", env |-> r.env, fn |-> r.fn, errors |-> Append(errs, r.exc),
          exc |-> NoExc]
    ELSE [st |-> "throw", env |-> r.env, fn |-> r.fn, errors |-> errs, exc |-> r.exc]

\* what check does with the outcome r of executing statement i: go on with
\* the next statement, or leave through the catch clause
RECURSIVE checkLoop(_, _, _, _, _)
checkNext(r, stmts, i, errs) ==
    IF r.st = "ok" THEN checkLoop(stmts, i + 1, r.env, r.fn, errs)
    ELSE checkCatch(r, errs)

\* Checker.check from statement i on
checkLoop(stmts, i, env, fn, errs) ==
    IF i > Len(stmts)
    THEN [st |-> "ok", env |-> env, fn |-> fn, errors |-> errs, exc |-> NoExc]
    ELSE checkNext(execute(stmts[i], env, fn, 1), stmts, i, errs)

\* ------------------------------------------------------- Lexer errors
\* scanTokens raises at a character for which scanToken has no case
lexerThrows(ws) == \E i \in DOMAIN ws : ws[i] \in {"#", "@"}

\* ------------------------------------------------------- inputs
\* the sequences over S of length at most n
SeqsUpTo(S, n) == UNION {[1..k -> S] : k \in 0..n}

TypeAlphabet == {"A", "(", ")", "|", "?"}
TypeSamples ==
    { <<"A", "[", "]">>, <<"A", "[", "]", "?", "|", "B">>, <<"A", "<", "B", ",", "C", ">">>,
      <<"A", "<", "B", "|", "C", ">", "|", "D">>, <<"(", "A", "|", "B", ")", "[", "]">>,
      <<"A", "[", "|", "B">>, <<"A", "|", "B", "|", "C", "|", "D">> }
TypeSources == SeqsUpTo(TypeAlphabet, MaxTypeLen) \cup TypeSamples
\* type expressions compared with each other
TypePairSamples ==
    { <<"A">>, <<"B">>, <<"A", "[", "]">>, <<"B", "[", "]">>, <<"A", "?">>,
      <<"A", "?", "[", "]">>, <<"B", "?", "[", "]">>, <<"A", "|", "B">>,
      <<"(", "A", "|", "B", ")", "[", "]">>, <<"(", "B", "|", "A", ")", "[", "]">>,
      <<"A", "[", "]", "[", "]">>, <<"B", "[", "]", "[", "]">> }

SourceAlphabet == {"x", "1", "=", ";", "(", "{", "}", "val", "return", "value"}
SourceSamples ==
    { <<"val", "x", "=", "1", ";">>,
      <<"fun", "f", "(", ")", "{", "val", "x", "=", ";", "1", ";", "}">>,
      <<"fun", "f", "(", ")", "{", "val", ";", "val", ";", "}">>,
      <<"val", "g", "=", "{", "val", "x", "=", ";", "}", ";">>,
      <<"x", "value", "P", "(", ")", "{", "}", "trait", "use", "val", "y", "=", "1", ";">>,
      <<"var", "x", ":", "i32", "=", "1", ";", "x", "=", "2", ";">>,
      <<"1", "=", "2", ";">>,
      <<"(", "x", ")", "=", "1", ";">>,
      <<"x", ".", "y", "=", "1", ";", "x", "[", "1", "]", "=", "2", ";">>,
      <<"val", "a", "=", "[", "[", "1", ",", "2", "]", ";", "[", "1", "]", ";">>,
      <<"value", "P", "(", "val", "a", ":", "f64", ")", "{", "fun", "d", "(", ")", "{", "}", "}">>,
      <<"value", "P", "(", ")", "{", "x", "}">>,
      <<"value", "P", "(", "a", ":", "T", ")", "{", "var", "var", "fun", "m", "(", ")", "{", "}", "}">>,
      <<"trait", "T", "{", "fun", "p", "(", ")", "{", "}", "}">>,
      <<"trait", "T", "{", "val", "}">>,
      <<"use", "a", ".", "b", ".", "{", "c", ",", "d", "}", ";", "use", "a", ".", "trait", ";">>,
      <<"fun", "add", "(", "a", ":", "i32", ",", "b", ":", "i32", ")", ":", "i32",
        "{", "return", "a", "+", "b", ";", "}", "add", "(", "1", ",", "2", ")", ";">>,
      <<"fun", "<", "T", ">", "f", "(", ")", "{", "x", "}">>,
      <<"val", "p", "=", "P", "(", "1.0", "f", ",", "2.5", "f", ")", ";", "val", "q", "=", "1", ";">>,
      <<")", ";", "{", "}", "val", "y", "=", "1", ";">>,
      <<"x", "val", "y", "=", "1", ";">>,
      <<"fun", "f", "(", ")", "{", ")", "}", "val", "y", "=", "1", ";">>,
      <<"(", "(", "(", "x", ")", ")", ")", ";", "val", "y", "=", "1", ";">>,
      <<"val", "z", "=", "if", "(", "true", ")", "1", "else", "\"s\"", ";">>,
      <<"val", "w", "=", "when", "(", "x", ")", "{", "1", "->", "2", ",", "else", "->", "{", "}", "}", ";">>,
      <<"while", "(", "x", "<", "3", ")", "{", "x", "=", "x", "+", "1", ";", "break", ";", "}">>,
      <<"for", "(", "i", ":", "xs", ")", "continue", "l", ";">>,
      <<"list", ".", "map", "{", "it", "+", "1", "}", ";", "f", "(", "n", "=", "1", ")", "{", "a", ",", "b", "->", "a", "}", ";">>,
      <<"a", "?:", "b", "||", "c", "&&", "!", "d", "==", "-", "e", "*", "2", "as", "T", "?", ";">>,
      <<"x", "?.", "y", "?", ";", "this", ";", "null", ";", "false", ";">>,
      <<"while", "(", "x", ")", "{", "x", ";", "}", ";">>,
      <<"while", "(", "x", ")", "x", ";">>,
      <<"for", "(", "i", ":", "x", ")", "{", "x", ";", "}", ";">>,
      <<"for", "(", "i", ":", "x", ")", "x", ";">>,
      <<"if", "(", "x", ")", "{", "x", ";", "}", ";">>,
      <<"if", "(", "x", ")", "x", ";">>,
      <<"fun", "f", "(", ")", "{", "x", "}">>,
      <<"fun", "f", "(", ")", "{", "return", "1", "}">>,
      <<"fun", "f", "(", ")", "{", "val", "x", "=", "1", "}">>,
      <<"fun", "f", "(", ")", "{", "var", "x", "=", "1", "}">>,
      <<"fun", "f", "(", ")", "{", "break", "}">>,
      <<"fun", "f", "(", ")", "{", "continue", "}">> }
\* expressions of operands joined by arithmetic operators, no parentheses
ArithmeticOperators == {"+", "-", "*", "/", "%"}
Operand(i) == IF i % 2 = 1 THEN NumberText((i + 1) \div 2) ELSE "x"
ArithmeticSource(ops) ==
    [i \in 1..(2 * Len(ops) + 2) |->
        IF i = 2 * Len(ops) + 2 THEN ";"
        ELSE IF i % 2 = 1 THEN Operand((i + 1) \div 2) ELSE ops[i \div 2]]
ArithmeticSources ==
    {ArithmeticSource(ops) : ops \in SeqsUpTo(ArithmeticOperators, MaxOperators)}
\* expression statements that end in a lambda: a callee, an argument list
\* in parentheses or none, and the lambda
Callees == { <<"f">>, <<"list", ".", "map">>, <<"1">> }
ArgumentLists ==
    { <<>>, <<"(", ")">>, <<"(", "1", ")">>, <<"(", "a", "=", "1", ",", "x", ")">> }
Lambdas == { <<"{", "}">>, <<"{", "x", "}">>, <<"{", "a", "->", "a", "}">> }
TrailingSource(h, a, l) == h \o a \o l \o <<";">>
TrailingSources ==
    {TrailingSource(h, a, l) : h \in Callees, a \in ArgumentLists, l \in Lambdas}
Sources ==
    SeqsUpTo(SourceAlphabet, MaxSourceLen) \cup SourceSamples \cup ArithmeticSources
    \cup TrailingSources

\* source texts by characters
CharAlphabet == {"a", "1", "\"", "\n", " ", ";"}
CharSamples ==
    { <<"/", "*", "\n", "*", "/", "a">>,
      <<"/", "*", "a", "*", "/", "a", "\n", "b">>,
      <<"\"", "a", "\n", "b", "\"", " ", "x">>,
      <<"v", "a", "l", " ", "s", " ", "=", " ", "\"", "l", "\n", "l", "\"">>,
      <<"/", "/", " ", "c", "\n", "x", "/", "y">>,
      <<"a", "<", "=", "b", "&", "&", "c", "?", ".", "d", "\t", "-", ">", "\r", "\n", "|", "|">>,
      <<"1", "2", ".", "5", "+", "2", ".", "x">>,
      <<"&", "x">>, <<"x", " ", "#">>, <<"/", "*", " ", "a">> }
CharSources == SeqsUpTo(CharAlphabet, MaxChars) \cup CharSamples

\* syntactically valid sources handed to the printer: declarations and
\* statements over literals and names
PrinterAtoms == {"x", "1", "1.0", "2.5", "\"s\"", "true", "null", "this"}
PrinterSources ==
    {<<k, n, "=", v, ";">> : k \in {"val", "var"}, n \in {"x", "y"}, v \in PrinterAtoms}
    \cup {<<v, ";">> : v \in PrinterAtoms}
    \cup {<<"return", v, ";">> : v \in PrinterAtoms}
    \cup {<<"while", "(", "x", ")", v, ";">> : v \in PrinterAtoms}
    \cup { <<>>, <<"return", ";">>, <<"x", ";", "return", ";">>,
           <<"val", "x", ":", "i32", "=", "1", ";", "x", ";">>,
           <<"for", "(", "i", ":", "x", ")", "break", "l", ";">>,
           <<"while", "(", "x", ")", "continue", ";">>,
           <<"use", "a", ".", "b", ";">> }

\* a chain of n unary minus signs before a literal
RECURSIVE MinusChain(_)
MinusChain(n) == IF n = 0 THEN <<"1", ";">> ELSE <<"-">> \o MinusChain(n - 1)

AddFunction ==
    <<"fun", "add", "(", "a", ":", "i32", ",", "b", ":", "i32", ")", ":", "i32",
      "{", "return", "a", "+", "b", ";", "}">>
CheckerSources ==
    { <<"var", "x", ":", "i32", "=", "1", ";">>,
      <<"var", "x", "=", "1", ";", "x", "=", "2", ";">>,
      <<"var", "x", ":", "i32", "=", "\"s\"", ";">>,
      AddFunction \o <<"add", "(", "1", ",", "2", ")", ";">>,
      AddFunction \o <<"add", "(", "1", ",", "\"s\"", ")", ";">>,
      AddFunction \o <<"add", "(", "\"s\"", ",", "\"s\"", ")", ";">>,
      AddFunction \o <<"add", "(", "\"s\"", ",", "2.5", ")", ";", "var", "w", "=", "1", ";">>,
      AddFunction \o <<"add", "(", "1", ")", ";">>,
      AddFunction \o <<"add", "(", "y", ")", ";", "var", "w", "=", "1", ";">>,
      AddFunction \o <<"add", "(", "1", ",", "\"s\"", ",", "y", ")", ";">>,
      AddFunction \o <<"add", "(", ")", ";">>,
      <<"fun", "getInt", "(", ")", ":", "i32", "{", "return", "1", ";", "}">>,
      <<"fun", "getInt", "(", ")", ":", "i32", "{", "return", "\"s\"", ";", "}">>,
      <<"fun", "getInt", "(", ")", ":", "i32", "{", "return", ";", "}">>,
      <<"fun", "test", "(", ")", ":", "i32", "{", "val", "x", "=", "1", ";", "x", "}">>,
      <<"fun", "f", "(", "a", ":", "i32", ")", "{", "y", "}">>,
      <<"val", "t", "=", "if", "(", "true", ")", "{", "val", "z", "=", "1", ";", "y", "}", ";">>,
      <<"a", ";">>,
      <<"z", ";">>,
      <<"return", ";">>,
      <<"var", "x", "=", "1", ";", "return", "x", ";", "var", "w", "=", "2", ";">>,
      <<"y", ";", "z", ";">>,
      <<"var", "x", ":", "i32", "=", "if", "(", "true", ")", "1", "else", "\"s\"", ";">>,
      <<"if", "(", "1", ")", "{", "}", ";">>,
      <<"while", "(", "1", "<", "2", ")", "1", ";", "while", "(", "1", ")", "1", ";">>,
      <<"value", "Point", "(", "val", "x", ":", "f64", ",", "val", "y", ":", "f64", ")",
        "{", "}",
        "fun", "g", "(", "a", ":", "f64", ",", "b", ":", "f64", ")",
        "{", "Point", "(", "a", ",", "b", ")", ";", "}">>,
      <<"1", "==", "\"s\"", ";", "1", "<", "2", ";">>,
      <<"1", "==", "1", ";", "1", "!=", "\"s\"", ";">>,
      MinusChain(13) }

\* the statement lists the parser returns for them
Programs == {parse(scanTokens(ws)).node : ws \in CheckerSources}

\* programs given to a Checker that has checked nothing before
DeclarationSources ==
    { <<"var", "x", ":", "i32", "=", "1", ";">>,
      <<"var", "x", ":", "i32", "=", "\"s\"", ";">>,
      <<"val", "x", ":", "String", "=", "\"s\"", ";">>,
      <<"val", "x", ":", "String", "=", "2.5", ";">>,
      <<"val", "x", "=", "2.5", ";">>,
      <<"var", "x", "=", "true", ";", "var", "y", ":", "Boolean", "=", "x", ";",
        "var", "z", ":", "i32", "=", "y", ";">>,
      <<"var", "x", ":", "i32", "?", "=", "1", ";">>,
      <<"val", "a", ":", "i32", "[", "]", "=", "1", ";">>,
      <<"val", "x", ":", "i32", "=", "y", ";">>,
      <<"val", "x", "=", "y", ";">>,
      <<"val", "t", "=", "if", "(", "true", ")", "1", "else", "2", ";">>,
      <<"val", "t", "=", "if", "(", "true", ")", "1", "else", "\"s\"", ";">>,
      <<"val", "t", "=", "if", "(", "\"s\"", ")", "1", "else", "\"s\"", ";">>,
      <<"if", "(", "1", ")", "y", "else", "z", ";">>,
      <<"if", "(", "true", ")", "{", "1", ";", "}", "else", "{", "\"s\"", ";", "}", ";">>,
      <<"if", "(", "true", ")", "{", "2.5", "}", "else", "{", "2.5", "}", ";">>,
      <<"var", "b", "=", "true", ";", "val", "t", "=", "if", "(", "b", ")", "1", "else", "2", ";">>,
      <<"var", "n", "=", "1", ";", "if", "(", "n", ")", "1", "else", "2", ";">>,
      <<"if", "(", "true", ")", "y", "else", "2", ";">>,
      <<"if", "(", "y", ")", "1", "else", "2", ";">>,
      <<"val", "t", "=", "if", "(", "true", ")", "1", "else", "z", ";">>,
      <<"fun", "f", "(", ")", ":", "i32", "{", "1", "}">>,
      <<"fun", "f", "(", ")", ":", "i32", "{", "\"s\"", "}">>,
      <<"fun", "f", "(", ")", ":", "i32", "{", "1", ";", "\"s\"", ";", "}">>,
      <<"fun", "f", "(", ")", ":", "i32", "{", "}">>,
      <<"fun", "f", "(", ")", ":", "String", "{", "val", "x", "=", "1", ";", "}">>,
      <<"fun", "f", "(", ")", ":", "i32", "{", "return", "1", ";", "}">>,
      <<"fun", "f", "(", "a", ":", "i32", ")", ":", "i32", "{", "a", "}">>,
      <<"fun", "f", "(", "a", ":", "String", ")", ":", "i32", "{", "a", "}">>,
      <<"fun", "f", "(", ")", ":", "i32", "{", "y", "}">>,
      <<"fun", "f", "(", ")", "{", "\"s\"", "}">>,
      <<"fun", "f", "(", ")", ":", "Unit", "{", "1", "}">>,
      <<"fun", "f", "(", ")", ":", "i32", "?", "{", "1", "}">>,
      <<"fun", "f", "(", ")", ":", "i32", "{", "this", "}">>,
      <<"val", "x", ":", "i32", "=", "1", ";", "x", "=", "2", ";">>,
      <<"val", "x", ":", "i32", "=", "1", ";", "var", "y", "=", "x", "=", "2", ";">>,
      <<"var", "x", ":", "i32", "=", "1", ";", "val", "y", "=", "x", "=", "\"s\"", ";">>,
      <<"val", "x", "=", "1", ";", "x", "=", "\"s\"", ";">>,
      <<"fun", "f", "(", ")", ":", "i32", "{", "val", "x", "=", "1", ";", "x", "=", "2", "}">>,
      <<"while", "(", "true", ")", "{", "var", "x", ":", "i32", "=", "\"s\"", ";", "}", ";">>,
      <<"while", "(", "true", ")", "{", "var", "x", ":", "i32", "=", "1", ";", "}", ";">>,
      <<"while", "(", "true", ")", "{", "y", ";", "}", ";">>,
      <<"while", "(", "true", ")", "y", ";">>,
      <<"for", "(", "i", ":", "xs", ")", "{", "var", "x", ":", "i32", "=", "\"s\"", ";", "}", ";">>,
      <<"for", "(", "i", ":", "xs", ")", "{", "1", "+", "\"s\"", ";", "}", ";">>,
      <<"for", "(", "i", ":", "xs", ")", "y", ";">>,
      MinusChain(13) }

\* the statement lists the parser returns for them, and two declarations
\* without an initializer, which a caller of check() can build
FreshPrograms ==
    {parse(scanTokens(ws)).node : ws \in DeclarationSources}
    \cup { <<VarStmt(Token("IDENTIFIER", "x", NoLiteral, 1, 3), NullNode, NullNode, TRUE)>>,
           <<VarStmt(Token("IDENTIFIER", "x", NoLiteral, 1, 3), NullNode,
                     BuiltinType("i32", 1, 7), FALSE)>> }

\* file contents given to the driver
MainSources ==
    CheckerSources \cup SourceSamples
    \cup { <<"val", "x", "=", ";">>, <<"x", "#", ";">>, <<"@">>, <<>>,
           <<"val", "v", "=", "1.0", ";">>, <<"val", "v", "=", "2.5", ";">>,
           <<"var", "n", "=", "3", ";">> }

\* ------------------------------------------------------- specification
NotRun == [st |-> "notrun"]

IdleType == typeTokens = <<>> /\ typeOut = NotRun
\* a Checker as its constructor leaves it, no call made
IdleChecker ==
    /\ environment = <<EmptyScope>>
    /\ currentFunction = NullNode
    /\ checkerErrors = <<>>
    /\ program = <<>> /\ stmtIndex = 0 /\ checkPc = "idle"
    /\ calls = 0 /\ errorsAtCall = <<>>
IdleMain ==
    /\ argc = 1 /\ content = <<>> /\ mainPc = "idle" /\ exitCode = -1
    /\ stdout = <<>> /\ stderr = <<>>
IdleParser ==
    /\ tokens = <<>> /\ current = 0 /\ errors = <<>> /\ statements = <<>>
    /\ pc = "idle"
IdleLexer ==
    /\ lexerSource = <<>> /\ lexerCurrent = 0 /\ lexerLine = 1 /\ lexerColumn = 1
    /\ lexerTokens = <<>> /\ lexerPc = "idle"

\* a Parser constructed over the tokens of one source text
InitParser ==
    /\ tokens \in {scanTokens(ws) : ws \in Sources}
    /\ current = 0
    /\ errors = <<>>
    /\ statements = <<>>
    /\ pc = "parsing"
    /\ IdleType /\ IdleChecker /\ IdleMain /\ IdleLexer

\* one iteration of the loop of parse(): a call of declaration() that returns
ParseDeclaration ==
    /\ pc = "parsing"
    /\ ~isAtEnd(tokens, current)
    /\ LET decl == declaration(tokens, current, errors, 1) IN
        /\ decl.st = "ok"
        /\ current' = decl.cur
        /\ errors' = decl.errs
        /\ statements' = IF decl.node # NullNode
                         THEN Append(statements, decl.node) ELSE statements
    /\ UNCHANGED <<tokens, pc, typeVars, lexerVars, checkerVars, mainVars>>

\* an iteration of the loop of parse() whose call of declaration() enters a
\* body loop that repeats without change: control never comes back
ParseHang ==
    /\ pc = "parsing"
    /\ ~isAtEnd(tokens, current)
    /\ LET decl == declaration(tokens, current, errors, 1) IN
        /\ decl.st = "diverge"
        /\ current' = decl.cur
        /\ errors' = decl.errs
    /\ pc' = "hung"
    /\ UNCHANGED <<tokens, statements, typeVars, lexerVars, checkerVars, mainVars>>

\* the loop of parse() ends and the statement list is returned
ParseReturn ==
    /\ pc = "parsing"
    /\ isAtEnd(tokens, current)
    /\ pc' = "returned"
    /\ UNCHANGED <<tokens, current, errors, statements, typeVars, lexerVars, checkerVars, mainVars>>

Next == ParseDeclaration \/ ParseHang \/ ParseReturn
Spec == InitParser /\ [][Next]_vars

\* printing the statements of a syntactically valid source, then lexing,
\* parsing and printing the printed text again; stdout holds the printed texts
InitPrinter ==
    /\ tokens \in {scanTokens(ws) : ws \in PrinterSources}
    /\ current = 0 /\ errors = <<>> /\ statements = <<>>
    /\ pc = "lexed"
    /\ IdleType /\ IdleChecker /\ IdleMain /\ IdleLexer

\* parser.parse() and one printer.print(stmt) per statement
PrintParsed ==
    /\ pc = "lexed"
    /\ parse(tokens).st = "ok"
    /\ statements' = parse(tokens).node
    /\ errors' = parse(tokens).errs
    /\ current' = parse(tokens).cur
    /\ stdout' = Append(stdout, printEach(parse(tokens).node, <<>>))
    /\ pc' = "printed"
    /\ UNCHANGED <<tokens, argc, content, mainPc, exitCode, stderr, typeVars, lexerVars, checkerVars>>

\* new Lexer(text).scanTokens() on the text just printed
LexPrinted ==
    /\ pc = "printed"
    /\ Len(stdout) = 1
    /\ tokens' = scanTokens(stdout[1])
    /\ current' = 0 /\ errors' = <<>> /\ statements' = <<>>
    /\ pc' = "lexed"
    /\ UNCHANGED <<typeVars, lexerVars, checkerVars, mainVars>>

NextPrinter == PrintParsed \/ LexPrinted
SpecPrinter == InitPrinter /\ [][NextPrinter]_vars

\* a Lexer constructed over one source text, and its scanTokens call
InitLexer ==
    /\ lexerSource \in CharSources
    /\ lexerCurrent = 0 /\ lexerLine = 1 /\ lexerColumn = 1
    /\ lexerTokens = <<>>
    /\ lexerPc = "scanning"
    /\ IdleParser /\ IdleType /\ IdleChecker /\ IdleMain

\* one iteration of the loop of scanTokens() whose scanToken() returns
ScanToken ==
    /\ lexerPc = "scanning"
    /\ lexerCurrent < Len(lexerSource)
    /\ LET r == scanTokenAt(lexerSource, lexerCurrent, lexerLine, lexerColumn) IN
        /\ r.st = "ok"
        /\ lexerCurrent' = r.cur
        /\ lexerLine' = r.line
        /\ lexerColumn' = r.column
        /\ lexerTokens' = lexerTokens \o r.toks
    /\ UNCHANGED <<lexerSource, lexerPc, parserVars, typeVars, checkerVars, mainVars>>

\* one iteration whose scanToken() throws: the Error leaves scanTokens()
ScanTokenThrows ==
    /\ lexerPc = "scanning"
    /\ lexerCurrent < Len(lexerSource)
    /\ LET r == scanTokenAt(lexerSource, lexerCurrent, lexerLine, lexerColumn) IN
        /\ r.st = "throw"
        /\ lexerCurrent' = r.cur
        /\ lexerLine' = r.line
        /\ lexerColumn' = r.column
    /\ lexerPc' = "thrown"
    /\ UNCHANGED <<lexerSource, lexerTokens, parserVars, typeVars, checkerVars, mainVars>>

\* the end of scanTokens(): the EOF token is pushed and the list returned
ScanReturn ==
    /\ lexerPc = "scanning"
    /\ lexerCurrent >= Len(lexerSource)
    /\ lexerTokens' = Append(lexerTokens, Token("EOF", "", NoLiteral, lexerLine, lexerColumn))
    /\ lexerPc' = "returned"
    /\ UNCHANGED <<lexerSource, lexerCurrent, lexerLine, lexerColumn,
                   parserVars, typeVars, checkerVars, mainVars>>

NextLexer == ScanToken \/ ScanTokenThrows \/ ScanReturn
SpecLexer == InitLexer /\ [][NextLexer]_vars

\* the type grammar applied to one type expression
InitType ==
    /\ typeTokens \in {scanTokens(ws) : ws \in TypeSources}
    /\ typeOut = NotRun
    /\ IdleParser /\ IdleChecker /\ IdleMain /\ IdleLexer

ParseTypeCall ==
    /\ typeOut = NotRun
    /\ typeTokens # <<>>
    /\ typeOut' = parseType(typeTokens, 0, <<>>, 1)
    /\ UNCHANGED <<typeTokens, lexerVars, parserVars, checkerVars, mainVars>>

NextType == ParseTypeCall
SpecType == InitType /\ [][NextType]_vars

\* isTypeCompatible applied to two type expressions that the type grammar
\* read from one token sequence, the target first and the source after a
\* comma
InitCompatible ==
    /\ typeTokens \in {scanTokens(t \o <<",">> \o u) : t \in TypePairSamples,
                                                      u \in TypePairSamples}
    /\ typeOut = NotRun
    /\ IdleParser /\ IdleChecker /\ IdleMain /\ IdleLexer

IsTypeCompatibleCall ==
    /\ typeOut = NotRun
    /\ typeTokens # <<>>
    /\ LET target == parseType(typeTokens, 0, <<>>, 1)
           source == parseType(typeTokens, target.cur + 1, <<>>, 1) IN
        typeOut' = [st |-> "compared", target |-> target.node, source |-> source.node,
                    compatible |-> isTypeCompatible(target.node, source.node)]
    /\ UNCHANGED <<typeTokens, lexerVars, parserVars, checkerVars, mainVars>>

NextCompatible == IsTypeCompatibleCall
SpecCompatible == InitCompatible /\ [][NextCompatible]_vars

\* one Checker instance whose check method is called up to MaxChecks times
InitChecker ==
    /\ IdleChecker
    /\ IdleParser /\ IdleType /\ IdleMain /\ IdleLexer

\* a caller passes a statement list to check(): the loop starts
CheckCall ==
    /\ checkPc \in {"idle", "returned", "thrown"}
    /\ calls < MaxChecks
    /\ \E p \in Programs : program' = p
    /\ stmtIndex' = 1
    /\ checkPc' = "checking"
    /\ calls' = calls + 1
    /\ errorsAtCall' = checkerErrors
    /\ UNCHANGED <<environment, currentFunction, checkerErrors>>
    /\ UNCHANGED <<parserVars, typeVars, lexerVars, mainVars>>

\* one iteration of the loop of check(): execute returns
ExecuteStatement ==
    /\ checkPc = "checking"
    /\ stmtIndex <= Len(program)
    /\ LET r == execute(program[stmtIndex], environment, currentFunction, 1) IN
        /\ r.st = "ok"
        /\ environment' = r.env
        /\ currentFunction' = r.fn
    /\ stmtIndex' = stmtIndex + 1
    /\ UNCHANGED <<checkerErrors, checkPc, program, calls, errorsAtCall>>
    /\ UNCHANGED <<parserVars, typeVars, lexerVars, mainVars>>

\* a catch clause inside the loop: the error is recorded and the loop goes
\* on with the next statement
CheckCatchGoesOn ==
    /\ checkPc = "checking"
    /\ stmtIndex <= Len(program)
    /\ LET r == execute(program[stmtIndex], environment, currentFunction, 1) IN
        /\ r.st = "throw"
        /\ checkCatch(r, checkerErrors).st = "ok"
        /\ environment' = r.env
        /\ currentFunction' = r.fn
        /\ checkerErrors' = checkCatch(r, checkerErrors).errors
    /\ stmtIndex' = stmtIndex + 1
    /\ UNCHANGED <<checkPc, program, calls, errorsAtCall>>
    /\ UNCHANGED <<parserVars, typeVars, lexerVars, mainVars>>

\* execute raises a CheckerError: the catch clause records it and check()
\* returns
CheckCatch ==
    /\ checkPc = "checking"
    /\ stmtIndex <= Len(program)
    /\ LET r == execute(program[stmtIndex], environment, currentFunction, 1) IN
        /\ r.st = "throw"
        /\ checkCatch(r, checkerErrors).st = "ok"
        /\ environment' = r.env
        /\ currentFunction' = r.fn
        /\ checkerErrors' = checkCatch(r, checkerErrors).errors
    /\ checkPc' = "returned"
    /\ UNCHANGED <<stmtIndex, program, calls, errorsAtCall>>
    /\ UNCHANGED <<parserVars, typeVars, lexerVars, mainVars>>

\* execute raises something else: the catch clause throws it on
CheckRethrow ==
    /\ checkPc = "checking"
    /\ stmtIndex <= Len(program)
    /\ LET r == execute(program[stmtIndex], environment, currentFunction, 1) IN
        /\ r.st = "throw"
        /\ checkCatch(r, checkerErrors).st = "throw"
        /\ environment' = r.env
        /\ currentFunction' = r.fn
        /\ checkerErrors' = checkCatch(r, checkerErrors).errors
    /\ checkPc' = "thrown"
    /\ UNCHANGED <<stmtIndex, program, calls, errorsAtCall>>
    /\ UNCHANGED <<parserVars, typeVars, lexerVars, mainVars>>

\* the loop of check() ends
CheckReturn ==
    /\ checkPc = "checking"
    /\ stmtIndex > Len(program)
    /\ checkPc' = "returned"
    /\ UNCHANGED <<environment, currentFunction, checkerErrors, program, stmtIndex,
                   calls, errorsAtCall>>
    /\ UNCHANGED <<parserVars, typeVars, lexerVars, mainVars>>

NextChecker ==
    CheckCall \/ ExecuteStatement \/ CheckCatch \/ CheckRethrow \/ CheckReturn
SpecChecker == InitChecker /\ [][NextChecker]_vars

\* -- one call of check() on a new Checker
CheckFreshCall ==
    /\ checkPc = "idle"
    /\ calls = 0
    /\ \E p \in FreshPrograms : program' = p
    /\ stmtIndex' = 1
    /\ checkPc' = "checking"
    /\ calls' = calls + 1
    /\ errorsAtCall' = checkerErrors
    /\ UNCHANGED <<environment, currentFunction, checkerErrors>>
    /\ UNCHANGED <<parserVars, typeVars, lexerVars, mainVars>>

NextCheckOnce ==
    CheckFreshCall \/ ExecuteStatement \/ CheckCatch \/ CheckRethrow \/ CheckReturn
SpecCheckOnce == InitChecker /\ [][NextCheckOnce]_vars

\* -- the command-line driver
\* the process starts with some number of arguments after the script name
InitMain ==
    /\ argc \in 0..2
    /\ content = <<>>
    /\ mainPc = "start"
    /\ exitCode = -1
    /\ stdout = <<>> /\ stderr = <<>>
    /\ IdleParser /\ IdleType /\ IdleChecker /\ IdleLexer

\* `Error: ${e.message}` printed by the outer catch, then exit(1)
MainCatch(message) ==
    /\ stderr' = Append(stderr, [error |-> message])
    /\ exitCode' = 1
    /\ mainPc' = "exited"
    /\ UNCHANGED stdout

MainUsage ==
    /\ mainPc = "start"
    /\ argc # 1
    /\ stdout' = Append(stdout, [usage |-> "Usage: dyego <filename>"])
    /\ exitCode' = 1
    /\ mainPc' = "exited"
    /\ UNCHANGED <<argc, content, stderr, parserVars, typeVars, lexerVars, checkerVars>>

\* readFileSync returns the contents of the file
MainRead ==
    /\ mainPc = "start"
    /\ argc = 1
    /\ \E ws \in MainSources : content' = ws
    /\ mainPc' = "read"
    /\ UNCHANGED <<argc, exitCode, stdout, stderr, parserVars, typeVars, lexerVars, checkerVars>>

\* readFileSync raises: no such file
MainReadFails ==
    /\ mainPc = "start"
    /\ argc = 1
    /\ MainCatch("ENOENT: no such file or directory")
    /\ UNCHANGED <<argc, content, parserVars, typeVars, lexerVars, checkerVars>>

MainLex ==
    /\ mainPc = "read"
    /\ ~lexerThrows(content)
    /\ tokens' = scanTokens(content)
    /\ mainPc' = "lexed"
    /\ UNCHANGED <<current, errors, statements, pc>>
    /\ UNCHANGED <<argc, content, exitCode, stdout, stderr, typeVars, lexerVars, checkerVars>>

MainLexThrows ==
    /\ mainPc = "read"
    /\ lexerThrows(content)
    /\ MainCatch("Unexpected character")
    /\ UNCHANGED <<argc, content, parserVars, typeVars, lexerVars, checkerVars>>

\* parser.parse() returns the statement list
MainParse ==
    /\ mainPc = "lexed"
    /\ LET r == parse(tokens) IN
        /\ r.st = "ok"
        /\ current' = r.cur
        /\ errors' = r.errs
        /\ statements' = r.node
    /\ pc' = "returned"
    /\ mainPc' = "parsed"
    /\ UNCHANGED <<tokens, argc, content, exitCode, stdout, stderr, typeVars, lexerVars, checkerVars>>

\* parser.parse() never returns
MainParseHangs ==
    /\ mainPc = "lexed"
    /\ LET r == parse(tokens) IN
        /\ r.st = "diverge"
        /\ current' = r.cur
        /\ errors' = r.errs
    /\ pc' = "hung"
    /\ mainPc' = "hung"
    /\ UNCHANGED <<tokens, statements, argc, content, exitCode, stdout, stderr,
                   typeVars, lexerVars, checkerVars>>

\* checker.check(statements) on a new Checker returns
MainCheck ==
    /\ mainPc = "parsed"
    /\ LET r == checkLoop(statements, 1, <<EmptyScope>>, NullNode, <<>>) IN
        /\ r.st = "ok"
        /\ environment' = r.env
        /\ currentFunction' = r.fn
        /\ checkerErrors' = r.errors
    /\ checkPc' = "returned"
    /\ mainPc' = "checked"
    /\ program' = statements
    /\ calls' = calls + 1
    /\ UNCHANGED <<stmtIndex, errorsAtCall>>
    /\ UNCHANGED <<argc, content, exitCode, stdout, stderr, parserVars, typeVars, lexerVars>>

\* checker.check(statements) throws: the outer catch reports it
MainCheckThrows ==
    /\ mainPc = "parsed"
    /\ LET r == checkLoop(statements, 1, <<EmptyScope>>, NullNode, <<>>) IN
        /\ r.st = "throw"
        /\ environment' = r.env
        /\ currentFunction' = r.fn
        /\ checkerErrors' = r.errors
        /\ MainCatch(r.exc.message)
    /\ checkPc' = "thrown"
    /\ program' = statements
    /\ calls' = calls + 1
    /\ UNCHANGED <<stmtIndex, errorsAtCall>>
    /\ UNCHANGED <<argc, content, parserVars, typeVars, lexerVars>>

MainReport ==
    /\ mainPc = "checked"
    /\ Len(checkerErrors) > 0
    /\ stderr' = stderr \o [i \in DOMAIN checkerErrors |->
                                [line |-> checkerErrors[i].token.line,
                                 lexeme |-> checkerErrors[i].token.lexeme,
                                 message |-> checkerErrors[i].message]]
    /\ exitCode' = 1
    /\ mainPc' = "exited"
    /\ UNCHANGED <<argc, content, stdout, parserVars, typeVars, lexerVars, checkerVars>>

\* the loop over the statements prints for each one the text
\* AstPrinter.print builds from it; main returns and the process ends with
\* exit code 0
MainPrint ==
    /\ mainPc = "checked"
    /\ Len(checkerErrors) = 0
    /\ stdout' = stdout \o [i \in DOMAIN statements |-> [print |-> statements[i]]]
    /\ exitCode' = 0
    /\ mainPc' = "exited"
    /\ UNCHANGED <<argc, content, stderr, parserVars, typeVars, lexerVars, checkerVars>>

NextMain ==
    \/ MainUsage \/ MainRead \/ MainReadFails
    \/ MainLex \/ MainLexThrows
    \/ MainParse \/ MainParseHangs
    \/ MainCheck \/ MainCheckThrows
    \/ MainReport \/ MainPrint
SpecMain == InitMain /\ [][NextMain]_vars

\* ------------------------------------------------------- properties
Range(q) == {q[i] : i \in DOMAIN q}

\* C1: Parser.parse terminates on every token sequence that ends with EOF:
\* no call of declaration() made by parse() enters a loop that never ends.
ParseTerminates == pc # "hung"

\* number of `{` minus number of `}` among the first n tokens
RECURSIVE BraceDepth(_, _)
BraceDepth(toks, n) ==
    IF n = 0 THEN 0
    ELSE BraceDepth(toks, n - 1)
         + (IF toks[n].type = "LEFT_BRACE" THEN 1
            ELSE IF toks[n].type = "RIGHT_BRACE" THEN -1 ELSE 0)

\* a well-formed top-level declaration begins at cursor c: c follows a `;`
\* or a `}` outside all braces, and the tokens from c on start with a
\* declaration that parses without any syntax error
WellFormedTopLevelAt(toks, c) ==
    /\ ~isAtEnd(toks, c)
    /\ c > 0
    /\ toks[c].type \in {"SEMICOLON", "RIGHT_BRACE"}
    /\ BraceDepth(toks, c) = 0
    /\ LET r == declarationBody(toks, c, <<>>, 1) IN r.st = "ok" /\ r.errs = <<>>

\* the step is an iteration of parse() whose declaration raised a syntax
\* error that declaration() caught at top level
TopLevelRaise ==
    /\ pc = "parsing" /\ pc' = "parsing"
    /\ current' # current
    /\ statements' = statements
    /\ Len(errors') > Len(errors)

\* C2: whenever a top-level declaration raises a syntax error, a diagnostic
\* is recorded and every well-formed top-level declaration that begins at or
\* after the token where synchronization stopped is a statement of the
\* list parse() returns.
RecoveryKeepsLaterDeclarations ==
    [][TopLevelRaise =>
        LET rest == parseLoop(tokens, current', errors', statements') IN
        \A c \in current'..(Len(tokens) - 1) :
            WellFormedTopLevelAt(tokens, c) =>
                /\ rest.st = "ok"
                /\ declarationBody(tokens, c, <<>>, 1).node \in Range(rest.node)]_vars

\* every UnionType below t has at least two members, none of them a UnionType
RECURSIVE UnionsFlat(_)
UnionsFlat(t) ==
    CASE t.kind = "NamedType" -> \A i \in DOMAIN t.generics : UnionsFlat(t.generics[i])
      [] t.kind = "UnionType" ->
            /\ Len(t.types) >= 2
            /\ \A i \in DOMAIN t.types :
                t.types[i].kind # "UnionType" /\ UnionsFlat(t.types[i])
      [] t.kind = "ArrayType" -> UnionsFlat(t.elementType)
      [] t.kind = "OptionalType" -> UnionsFlat(t.innerType)

\* C3: every UnionType node the type grammar builds has at least two
\* members and no member that is itself a UnionType, parentheses included.
ParsedUnionsAreFlat == typeOut.st = "ok" => UnionsFlat(typeOut.node)

\* the token before some `=` is a literal, so the expression to the left of
\* that `=` is no variable reference, member access or index access
LiteralTokens == {"INTEGER", "FLOAT", "STRING", "TRUE", "FALSE", "NULL", "THIS"}
LiteralBeforeEqual(toks) ==
    \E i \in 2..Len(toks) : toks[i].type = "EQUAL" /\ toks[i - 1].type \in LiteralTokens

\* C4: a malformed assignment target is never silently accepted: input
\* whose `=` follows a literal never parses with an empty diagnostic list.
InvalidTargetIsDiagnosed ==
    (pc = "returned" /\ LiteralBeforeEqual(tokens)) => errors # <<>>

\* C10: at the catch boundary of Parser.declaration only the parser's own
\* syntax errors are appended to the diagnostics; any other exception
\* propagates instead.
OnlySyntaxErrorsRecorded == \A i \in DOMAIN errors : errors[i].kind = "Error"

\* C5: whenever Checker.check returns, every scope pushed during the call
\* has been popped again: the environment is the global scope alone, also
\* when a block or a function body raised.
ScopesPoppedOnReturn == checkPc = "returned" => Len(environment) = 1

\* check() is about to execute the top-level statement at stmtIndex
CheckingStatement == checkPc = "checking" /\ stmtIndex <= Len(program)

\* C6: a return statement at the top level of the list given to check(), in
\* any call on the instance, raises "Can't return from top-level code.",
\* which check() records before it returns.
TopLevelReturnRaises ==
    [][(CheckingStatement /\ program[stmtIndex].kind = "ReturnStmt") =>
        /\ checkPc' = "returned"
        /\ checkerErrors' =
             Append(checkerErrors,
                    CheckerError(program[stmtIndex].keyword,
                                 <<"Can't return from top-level code.">>))]_vars

\* stmt is a call of a named function as a top-level statement
IsCallStatement(stmt) ==
    /\ stmt.kind = "ExpressionStmt"
    /\ stmt.expression.kind = "CallExpr"
    /\ stmt.expression.callee.kind = "VariableExpr"

\* what the callee's name resolves to in the given fields
Callee(callExpr, env, fn) == get(env, fn, Len(env), callExpr.callee.name)

\* the outcome of evaluating argument i of a top-level call; the evaluation
\* runs seven frames below check(): execute, accept, visitExpressionStmt,
\* evaluate, accept, visitCallExpr, evaluate
ArgumentType(callExpr, i, env, fn) == evaluate(callExpr.arguments[i].value, env, fn, 7)

\* the call names a function declared with as many parameters as the call
\* has arguments, and every argument has a type
WellCounted(callExpr, env, fn) ==
    /\ Callee(callExpr, env, fn).st = "ok"
    /\ Callee(callExpr, env, fn).type.kind = "FunctionStmt"
    /\ Len(callExpr.arguments) = Len(Callee(callExpr, env, fn).type.params)
    /\ \A i \in DOMAIN callExpr.arguments : ArgumentType(callExpr, i, env, fn).st = "ok"

\* the positions whose argument type does not fit the parameter type
Mismatched(callExpr, env, fn) ==
    {i \in DOMAIN callExpr.arguments :
        ~isTypeCompatible(Callee(callExpr, env, fn).type.params[i].type,
                          ArgumentType(callExpr, i, env, fn).type)}

Least(S) == CHOOSE i \in S : \A j \in S : i <= j

\* the diagnostic for position i of the call
MismatchDiagnostic(callExpr, i, env, fn) ==
    CheckerError(callExpr.paren,
                 ExpectedButGot(Callee(callExpr, env, fn).type.params[i].type,
                                ArgumentType(callExpr, i, env, fn).type))

\* the step checks a call with the right number of arguments of which at
\* least k do not fit
MismatchedCallStep(k) ==
    /\ CheckingStatement
    /\ IsCallStatement(program[stmtIndex])
    /\ WellCounted(program[stmtIndex].expression, environment, currentFunction)
    /\ Cardinality(Mismatched(program[stmtIndex].expression, environment,
                              currentFunction)) >= k

StatementRaises ==
    /\ CheckingStatement
    /\ execute(program[stmtIndex], environment, currentFunction, 1).exc.kind
         = "CheckerError"

\* within one call the statements are taken in order, the list of
\* diagnostics only grows, a statement that raises ends the call with one
\* more diagnostic and any other step adds none
CheckStep ==
    /\ program' = program
    /\ stmtIndex' \in {stmtIndex, stmtIndex + 1}
    /\ IF StatementRaises
       THEN /\ checkPc' = "returned"
            /\ stmtIndex' = stmtIndex
            /\ Len(checkerErrors') = Len(checkerErrors) + 1
            /\ SubSeq(checkerErrors', 1, Len(checkerErrors)) = checkerErrors
       ELSE checkerErrors' = checkerErrors

\* a call that has returned: the diagnostics present at the call are kept,
\* one diagnostic was added if it stopped at a statement and none if it went
\* through the whole list
CheckReturned ==
    checkPc = "returned" =>
        /\ Len(checkerErrors) >= Len(errorsAtCall)
        /\ SubSeq(checkerErrors, 1, Len(errorsAtCall)) = errorsAtCall
        /\ Len(checkerErrors) - Len(errorsAtCall)
             = (IF stmtIndex <= Len(program) THEN 1 ELSE 0)

\* C8: within one call of check() the statements are checked in order; the
\* first semantic error is caught once at top level and checking stops
\* there: no later statement is checked, earlier diagnostics are kept, and
\* the call appends exactly one diagnostic if some statement raises and none
\* otherwise.
CheckStopsAtFirstError ==
    /\ []CheckReturned
    /\ [][(checkPc = "checking" => CheckStep)
          /\ (checkPc = "returned" /\ checkPc' = "checking" => calls' = calls + 1)]_vars

\* a call has stopped at a statement that raised, with an earlier statement
\* checked and a later one left unchecked, on an instance that already held
\* a diagnostic
StoppedInTheMiddle ==
    /\ checkPc = "returned"
    /\ 1 < stmtIndex /\ stmtIndex < Len(program)
    /\ errorsAtCall # <<>>
    /\ Len(checkerErrors) = Len(errorsAtCall) + 1

\* C9: whenever the parser recorded a syntax diagnostic the run reports it
\* and exits with a non-zero code before the checker runs and before any
\* tree is printed: the checker and the printer only run on a parse without
\* syntax diagnostics.
SyntaxErrorsEndTheRun ==
    errors # <<>> =>
        /\ mainPc \notin {"checked"}
        /\ checkPc = "idle"
        /\ stdout = <<>>
        /\ exitCode # 0

\* the list declares a value type and then a function whose parameters have
\* the types of the value type's fields, in order, and whose body is one
\* call of the value type's name with those parameters as arguments
MatchingValueCall(stmts) ==
    /\ Len(stmts) = 2
    /\ stmts[1].kind = "ValueStmt"
    /\ stmts[2].kind = "FunctionStmt"
    /\ Len(stmts[2].params) = Len(stmts[1].fields)
    /\ \A i \in DOMAIN stmts[2].params :
          isTypeCompatible(stmts[1].fields[i].type, stmts[2].params[i].type)
    /\ stmts[2].body.kind = "BlockExpr"
    /\ Len(stmts[2].body.statements) = 1
    /\ IsCallStatement(stmts[2].body.statements[1])
    /\ LET callExpr == stmts[2].body.statements[1].expression IN
        /\ callExpr.callee.name.lexeme = stmts[1].name.lexeme
        /\ Len(callExpr.arguments) = Len(stmts[2].params)
        /\ \A i \in DOMAIN callExpr.arguments :
              /\ callExpr.arguments[i].value.kind = "VariableExpr"
              /\ callExpr.arguments[i].value.name.lexeme = stmts[2].params[i].name.lexeme

\* C11: after a value type declaration, a call whose callee is the value
\* type's name and whose arguments have the declared field types is
\* accepted: the first check call of a new Checker on such a program
\* returns with no diagnostic.
ValueConstructorAccepted ==
    (checkPc = "returned" /\ calls = 1 /\ MatchingValueCall(program))
        => checkerErrors = <<>>

\* the source is one declaration `val NAME = LITERAL;` (or `var`) whose
\* literal is a token of the given type
DeclaresLiteral(toks, type) ==
    /\ Len(toks) = 6
    /\ toks[1].type \in {"VAL", "VAR"}
    /\ toks[2].type = "IDENTIFIER"
    /\ toks[3].type = "EQUAL"
    /\ toks[4].type = type
    /\ toks[5].type = "SEMICOLON"

\* C12: a numeric literal from a FLOAT token is never typed i32 by the
\* checker, whatever its fractional part: the variable it initializes gets
\* a floating-point type, while a literal from an INTEGER token gives i32.
FloatLiteralNeverI32 ==
    mainPc = "checked" =>
        /\ DeclaresLiteral(tokens, "FLOAT") =>
              environment[1][tokens[2].lexeme].name.lexeme \in {"f32", "f64"}
        /\ DeclaresLiteral(tokens, "INTEGER") =>
              environment[1][tokens[2].lexeme].name.lexeme = "i32"

\* stmt is an expression statement that compares two literals with `==`
\* or `!=`
EqualityOfLiterals(stmt) ==
    /\ stmt.kind = "ExpressionStmt"
    /\ stmt.expression.kind = "BinaryExpr"
    /\ stmt.expression.operator.type \in {"EQUAL_EQUAL", "BANG_EQUAL"}
    /\ stmt.expression.left.kind = "LiteralExpr"
    /\ stmt.expression.right.kind = "LiteralExpr"

\* C13: for `==` and `!=` no operand-compatibility check is made: checking
\* an equality of operands of any types, an i32 and a String included,
\* raises no diagnostic and checking goes on.
EqualityNeverRaises ==
    [][(CheckingStatement /\ EqualityOfLiterals(program[stmtIndex])) =>
        /\ checkerErrors' = checkerErrors
        /\ checkPc' = "checking"]_vars

\* C14: two array types are judged compatible if and only if their element
\* types are judged compatible, whatever the kind of the element type, and
\* two named types if and only if their names are identical.
ArraysCompatibleAsElements ==
    typeOut.st = "compared" =>
        /\ (typeOut.target.kind = "ArrayType" /\ typeOut.source.kind = "ArrayType") =>
              (typeOut.compatible <=>
                 isTypeCompatible(typeOut.target.elementType, typeOut.source.elementType))
        /\ (typeOut.target.kind = "NamedType" /\ typeOut.source.kind = "NamedType") =>
              (typeOut.compatible <=>
                 typeOut.target.name.lexeme = typeOut.source.name.lexeme)

\* the body of the loop or `if` that is the only statement parsed, and the
\* index of the body's first token when the condition is one token long
ControlBody(stmt) ==
    IF stmt.kind = "ExpressionStmt" THEN stmt.expression.thenBranch ELSE stmt.body
ControlBodyStart(toks) == IF toks[1].type = "FOR" THEN 7 ELSE 5
SingleControlFlow ==
    /\ pc = "returned" /\ errors = <<>> /\ Len(statements) = 1
    /\ tokens[1].type \in {"IF", "WHILE", "FOR"}
    /\ tokens[ControlBodyStart(tokens) - 1].type = "RIGHT_PAREN"

\* C15: the body of an `if` branch, a `for` loop and a `while` loop is
\* parsed as a BlockExpr whenever the first token of the body is `{`.
BraceBodyIsBlock ==
    (SingleControlFlow /\ tokens[ControlBodyStart(tokens)].type = "LEFT_BRACE")
        => ControlBody(statements[1]).kind = "BlockExpr"

\* the token types of the statement forms, each without its semicolon
LastStatementForms ==
    { <<"IDENTIFIER">>, <<"RETURN", "INTEGER">>, <<"VAL", "IDENTIFIER", "EQUAL", "INTEGER">>,
      <<"VAR", "IDENTIFIER", "EQUAL", "INTEGER">>, <<"BREAK">>, <<"CONTINUE">> }
TokenTypes(toks) == [i \in DOMAIN toks |-> toks[i].type]
\* the source is `fun NAME() { STATEMENT }` with the statement's semicolon
\* left out
UnterminatedLastStatement ==
    \E form \in LastStatementForms :
        TokenTypes(tokens) =
            <<"FUN", "IDENTIFIER", "LEFT_PAREN", "RIGHT_PAREN", "LEFT_BRACE">>
                \o form \o <<"RIGHT_BRACE", "EOF">>

\* C16: no statement requires a terminating semicolon when it is the last
\* statement before a closing `}`: a block whose last statement (an
\* expression statement, return, val/var declaration, break or continue)
\* omits its semicolon parses with no syntax diagnostic and contains that
\* statement.
LastSemicolonOptional ==
    (pc = "returned" /\ UnterminatedLastStatement) =>
        /\ errors = <<>>
        /\ Len(statements) = 1
        /\ Len(statements[1].body.statements) = 1

\* the source is OPERAND (OPERATOR OPERAND)* ; with literals or identifiers
\* as operands and arithmetic operators
IsArithmetic(toks) ==
    /\ Len(toks) >= 3 /\ Len(toks) % 2 = 1
    /\ toks[Len(toks) - 1].type = "SEMICOLON"
    /\ \A i \in 1..(Len(toks) - 2) :
          IF i % 2 = 1 THEN toks[i].type \in {"INTEGER", "IDENTIFIER"}
          ELSE toks[i].type \in {"PLUS", "MINUS", "STAR", "SLASH", "PERCENT"}
OperandsOf(toks) == [i \in 1..((Len(toks) - 1) \div 2) |-> toks[2 * i - 1].lexeme]
OperatorsOf(toks) == [i \in 1..((Len(toks) - 3) \div 2) |-> toks[2 * i].lexeme]

\* the grouping the grammar prescribes: split at the last additive operator,
\* and with none of them at the last multiplicative one
LastAdditive(ops) ==
    LET at == {i \in DOMAIN ops : ops[i] \in {"+", "-"}} IN
    IF at = {} THEN Len(ops) ELSE CHOOSE i \in at : \A j \in at : j <= i
RECURSIVE Grouping(_, _)
Grouping(es, ops) ==
    IF ops = <<>> THEN [leaf |-> es[1]]
    ELSE LET k == LastAdditive(ops) IN
         [left |-> Grouping(SubSeq(es, 1, k), SubSeq(ops, 1, k - 1)),
          op |-> ops[k],
          right |-> Grouping(SubSeq(es, k + 1, Len(es)), SubSeq(ops, k + 1, Len(ops)))]

\* the grouping of a parsed arithmetic expression
RECURSIVE Shape(_)
Shape(expr) ==
    IF expr.kind = "BinaryExpr"
    THEN [left |-> Shape(expr.left), op |-> expr.operator.lexeme, right |-> Shape(expr.right)]
    ELSE IF expr.kind = "VariableExpr" THEN [leaf |-> expr.name.lexeme]
    ELSE [leaf |-> NumberText(expr.value.n \div 10)]

\* C17: an expression of literals or identifiers joined by `+`, `-`, `*`,
\* `/`, `%` without parentheses parses with no diagnostic into the tree
\* that groups `*`, `/`, `%` tighter than `+`, `-` and operators of equal
\* precedence left to right.
ArithmeticGrouping ==
    (pc = "returned" /\ IsArithmetic(tokens)) =>
        /\ errors = <<>>
        /\ Len(statements) = 1
        /\ statements[1].kind = "ExpressionStmt"
        /\ Shape(statements[1].expression) = Grouping(OperandsOf(tokens), OperatorsOf(tokens))

\* `1 + x * 2;` has been parsed as `+` applied to 1 and the product
SumOfProductParsed ==
    /\ pc = "returned"
    /\ OperatorsOf(tokens) = <<"+", "*">>
    /\ IsArithmetic(tokens)
    /\ statements[1].expression.operator.type = "PLUS"
    /\ statements[1].expression.right.kind = "BinaryExpr"
    /\ statements[1].expression.right.operator.type = "STAR"

\* C18: round-trip stability: for a syntactically valid source, printing
\* the parsed statements, lexing and parsing the printed text again and
\* printing the result yields exactly the text of the first printing.
RoundTripStable ==
    (pc = "printed" /\ Len(stdout) = 2) => stdout[2] = stdout[1]

\* the 1-based column, within its line, of the character at offset `start`
TrueColumn(src, start) ==
    LET newlines == {i \in 1..start : src[i] = "\n"} IN
    IF newlines = {} THEN start + 1
    ELSE start + 1 - (CHOOSE i \in newlines : \A j \in newlines : j <= i)

\* C19: for every token the lexer emits, `column` is the 1-based column of
\* the token's first character within its source line, also for tokens
\* that follow a string literal or block comment spanning several lines.
TokenColumnIsTrueColumn ==
    [][Len(lexerTokens') > Len(lexerTokens) =>
        lexerTokens'[Len(lexerTokens')].column = TrueColumn(lexerSource, lexerCurrent)]_vars

\* the step checks a call of a declared function with a number of arguments
\* other than the number of its parameters
MiscountedCallStep ==
    /\ CheckingStatement
    /\ IsCallStatement(program[stmtIndex])
    /\ Callee(program[stmtIndex].expression, environment, currentFunction).st = "ok"
    /\ Callee(program[stmtIndex].expression, environment, currentFunction).type.kind
          = "FunctionStmt"
    /\ Len(program[stmtIndex].expression.arguments)
          # Len(Callee(program[stmtIndex].expression, environment, currentFunction).type.params)

\* 'Expected N arguments but got M.' at the call's parenthesis
CountDiagnostic(callExpr, env, fn) ==
    CheckerError(callExpr.paren,
                 <<"Expected ", NumberText(Len(Callee(callExpr, env, fn).type.params)),
                   " arguments but got ", NumberText(Len(callExpr.arguments)), ".">>)

\* C20: checking a call of a declared function that has N parameters with
\* M # N arguments, when no error was raised earlier in the call of check,
\* records exactly one diagnostic, 'Expected N arguments but got M.', and
\* no argument-type diagnostic: the counts are compared before any
\* argument is evaluated, so an argument that would raise is never reached.
MiscountDiagnosedOnce ==
    [][MiscountedCallStep =>
        /\ checkerErrors' =
              Append(checkerErrors,
                     CountDiagnostic(program[stmtIndex].expression, environment,
                                     currentFunction))
        /\ checkPc' = "returned"]_vars

\* check has returned from a miscounted call one of whose arguments would
\* itself raise, with the count diagnostic as the last one recorded
MiscountBeforeArguments ==
    /\ checkPc = "returned"
    /\ stmtIndex <= Len(program)
    /\ IsCallStatement(program[stmtIndex])
    /\ \E i \in DOMAIN program[stmtIndex].expression.arguments :
          ArgumentType(program[stmtIndex].expression, i, environment, currentFunction).st
              = "throw"
    /\ checkerErrors # <<>>
    /\ checkerErrors[Len(checkerErrors)] =
          CountDiagnostic(program[stmtIndex].expression, environment, currentFunction)

\* the type of the initializer of a top-level declaration; the evaluation
\* runs four frames below check(): execute, accept, visitVarStmt, evaluate
InitializerType(stmt, env, fn) ==
    IF stmt.initializer = NullNode THEN CkOk(env, fn, NullNode)
    ELSE evaluate(stmt.initializer, env, fn, 4)

\* the step checks a top-level declaration whose initializer, if there is
\* one, has a type
DeclarationStep ==
    /\ CheckingStatement
    /\ program[stmtIndex].kind = "VarStmt"
    /\ InitializerType(program[stmtIndex], environment, currentFunction).st = "ok"

\* the step goes on to the next statement with the name bound to type
\* and nothing recorded
Binds(stmt, type) ==
    /\ checkerErrors' = checkerErrors
    /\ checkPc' = "checking"
    /\ stmtIndex' = stmtIndex + 1
    /\ stmt.name.lexeme \in DOMAIN environment'[Len(environment')]
    /\ environment'[Len(environment')][stmt.name.lexeme] = type

\* the step records the one diagnostic at the declared name and check returns
RaisesAtName(stmt, message) ==
    /\ checkerErrors' = Append(checkerErrors, CheckerError(stmt.name, message))
    /\ checkPc' = "returned"

DeclarationOutcome(stmt, S) ==
    IF stmt.type # NullNode /\ S # NullNode
    THEN IF isTypeCompatible(stmt.type, S) THEN Binds(stmt, stmt.type)
         ELSE RaisesAtName(stmt, ExpectedButGot(stmt.type, S))
    ELSE IF S # NullNode THEN Binds(stmt, S)
    ELSE IF stmt.type = NullNode
    THEN RaisesAtName(stmt, <<"Variable must have a type annotation or an initializer.">>)
    ELSE TRUE

\* C21: checking a variable declaration with declared type T whose
\* initializer has type S records no diagnostic and binds the name to T when
\* S is compatible with T, and otherwise records exactly one diagnostic,
\* 'Expected type T, but got S.'; with an initializer and no declared type
\* the name is bound to S, and with neither the one diagnostic is 'Variable
\* must have a type annotation or an initializer.'.
DeclarationChecked ==
    [][DeclarationStep =>
        DeclarationOutcome(program[stmtIndex],
            InitializerType(program[stmtIndex], environment, currentFunction).type)]_vars

\* check has returned from a declaration of type i32 initialized with a
\* string, the mismatch recorded last
DeclarationMismatchRecorded ==
    /\ checkPc = "returned"
    /\ stmtIndex <= Len(program)
    /\ program[stmtIndex].kind = "VarStmt"
    /\ program[stmtIndex].type # NullNode
    /\ checkerErrors # <<>>
    /\ checkerErrors[Len(checkerErrors)].message =
          <<"Expected type ", "i32", ", but got ", "String", ".">>

\* the if expression that is the whole of a top-level expression statement
\* or the initializer of a top-level declaration without a declared type
IfOf(stmt) ==
    IF stmt.kind = "ExpressionStmt" THEN stmt.expression
    ELSE IF stmt.kind = "VarStmt" /\ stmt.type = NullNode THEN stmt.initializer
    ELSE NullNode

\* the types of the condition and the branches of such an if expression, as
\* visitIfExpr derives them one after the other; the evaluations run seven
\* frames below check()
ConditionType(expr, env, fn) == evaluate(expr.condition, env, fn, 7)
ThenType(expr, env, fn) ==
    evaluate(expr.thenBranch, ConditionType(expr, env, fn).env,
             ConditionType(expr, env, fn).fn, 7)
ElseType(expr, env, fn) ==
    evaluate(expr.elseBranch, ThenType(expr, env, fn).env, ThenType(expr, env, fn).fn, 7)

\* the step checks an if expression with an else branch whose condition
\* has a type
IfElseStep ==
    /\ CheckingStatement
    /\ IfOf(program[stmtIndex]).kind = "IfExpr"
    /\ IfOf(program[stmtIndex]).elseBranch # NullNode
    /\ ConditionType(IfOf(program[stmtIndex]), environment, currentFunction).st = "ok"

\* the token visitIfExpr reports a condition at
ConditionToken(expr) ==
    IF expr.condition.kind = "VariableExpr" THEN expr.condition.name
    ELSE Token("IF", "if", NoLiteral, 0, 0)

\* the step records one diagnostic that starts with the branch message
RaisesBranches ==
    /\ Len(checkerErrors') = Len(checkerErrors) + 1
    /\ SubSeq(checkerErrors', 1, Len(checkerErrors)) = checkerErrors
    /\ checkerErrors'[Len(checkerErrors')].message[1] =
          "If branches must return compatible types. Got "
    /\ checkPc' = "returned"

IfElseOutcome(stmt, expr, env, fn) ==
    IF ~isTypeCompatible(getBooleanType, ConditionType(expr, env, fn).type)
    THEN /\ checkerErrors' =
              Append(checkerErrors,
                     CheckerError(ConditionToken(expr),
                         ExpectedButGot(getBooleanType, ConditionType(expr, env, fn).type)))
         /\ checkPc' = "returned"
    ELSE IF ThenType(expr, env, fn).st = "ok" /\ ElseType(expr, env, fn).st = "ok"
    THEN IF ~isTypeCompatible(ThenType(expr, env, fn).type, ElseType(expr, env, fn).type)
         THEN RaisesBranches
         ELSE /\ checkerErrors' = checkerErrors
              /\ checkPc' = "checking"
              /\ stmt.kind = "VarStmt" =>
                    environment'[Len(environment')][stmt.name.lexeme]
                        = ThenType(expr, env, fn).type
    ELSE /\ checkerErrors' =
              Append(checkerErrors,
                     IF ThenType(expr, env, fn).st = "throw"
                     THEN ThenType(expr, env, fn).exc ELSE ElseType(expr, env, fn).exc)
         /\ checkPc' = "returned"

\* C22: checking an if expression that has an else branch, when the
\* condition is Boolean and both branches have a type, records a diagnostic
\* that starts 'If branches must return compatible types' exactly when the
\* branch types are not compatible, and otherwise records nothing and gives
\* the expression the then-branch's type; a condition of another type
\* records 'Expected type Boolean, but got ...' and neither branch is
\* checked, so a branch that would raise is never reached.
IfElseChecked ==
    [][IfElseStep =>
        IfElseOutcome(program[stmtIndex], IfOf(program[stmtIndex]),
                      environment, currentFunction)]_vars

\* check has returned from an if expression whose condition is not Boolean
\* and whose then branch would raise, the condition's diagnostic recorded last
ConditionBeforeBranches ==
    /\ checkPc = "returned"
    /\ stmtIndex <= Len(program)
    /\ IfOf(program[stmtIndex]).kind = "IfExpr"
    /\ IfOf(program[stmtIndex]).elseBranch # NullNode
    /\ evaluate(IfOf(program[stmtIndex]).thenBranch, environment, currentFunction, 7).st
          = "throw"
    /\ checkerErrors # <<>>
    /\ checkerErrors[Len(checkerErrors)].message =
          <<"Expected type ", "Boolean", ", but got ", "i32", ".">>

\* the type visitFunctionStmt derives for the body of a top-level function:
\* the body is evaluated four frames below check(), in a new scope that
\* holds the parameters, with the function as the current one
BodyType(stmt, env, fn) ==
    evaluate(stmt.body,
             defineParams(Append(define(env, stmt.name.lexeme, stmt), EmptyScope),
                          stmt.params, 1),
             stmt, 4)

\* the step checks a top-level function that declares a return type and
\* whose body has a type
ReturningFunctionStep ==
    /\ CheckingStatement
    /\ program[stmtIndex].kind = "FunctionStmt"
    /\ program[stmtIndex].returnType # NullNode
    /\ BodyType(program[stmtIndex], environment, currentFunction).st = "ok"

FunctionOutcome(stmt, B) ==
    IF typeToString(B) # <<"Unit">> /\ ~isTypeCompatible(stmt.returnType, B)
    THEN RaisesAtName(stmt, ExpectedButGot(stmt.returnType, B))
    ELSE /\ checkerErrors' = checkerErrors
         /\ checkPc' = "checking"
         /\ stmtIndex' = stmtIndex + 1

\* C23: checking a function that declares a return type R and whose body
\* has derived type B records exactly one diagnostic, 'Expected type R, but
\* got B.', when B is not Unit and not compatible with R, and records
\* nothing when B is compatible with R or B is Unit, whatever R is.
BodyCheckedAgainstReturnType ==
    [][ReturningFunctionStep =>
        FunctionOutcome(program[stmtIndex],
                        BodyType(program[stmtIndex], environment, currentFunction).type)]_vars

\* check has returned from a function declared to return i32 whose body
\* ends in an expression statement of type String, the mismatch recorded
\* last at the function's name
BodyMismatchRecorded ==
    /\ checkPc = "returned"
    /\ stmtIndex <= Len(program)
    /\ program[stmtIndex].kind = "FunctionStmt"
    /\ program[stmtIndex].body.kind = "BlockExpr"
    /\ program[stmtIndex].body.statements # <<>>
    /\ program[stmtIndex].body.statements[Len(program[stmtIndex].body.statements)].kind
          = "ExpressionStmt"
    /\ checkerErrors =
          <<CheckerError(program[stmtIndex].name,
                         <<"Expected type ", "i32", ", but got ", "String", ".">>)>>

\* the expression that the source without its trailing lambda parses to
WithoutLambda(h, a) == parse(scanTokens(h \o a \o <<";">>)).node[1].expression

\* the lambda as lambda() parses it where it stands in the source
LambdaAt(toks, cur) == lambda(toks, cur, <<>>, 1).node

\* the one statement parsed is a call whose last argument is the unnamed
\* lambda, after the arguments in parentheses if there are any
TrailingLambdaIsLastArgument(h, a) ==
    /\ errors = <<>>
    /\ Len(statements) = 1
    /\ statements[1].kind = "ExpressionStmt"
    /\ statements[1].expression.kind = "CallExpr"
    /\ LET callExpr == statements[1].expression
           last == callExpr.arguments[Len(callExpr.arguments)]
       IN /\ last = [name |-> NullNode, value |-> LambdaAt(tokens, Len(h \o a))]
          /\ last.value.kind = "LambdaExpr"
          /\ IF a = <<>>
             THEN /\ callExpr.callee = WithoutLambda(h, a)
                  /\ Len(callExpr.arguments) = 1
             ELSE /\ callExpr.callee = WithoutLambda(h, a).callee
                  /\ callExpr.paren = WithoutLambda(h, a).paren
                  /\ callExpr.arguments = Append(WithoutLambda(h, a).arguments, last)

\* C24: a lambda that follows the closing parenthesis of a call becomes the
\* call's last argument, unnamed, after the arguments in parentheses; with
\* no parentheses, the expression the `{` follows becomes the callee of a
\* CallExpr whose only argument is the lambda.
TrailingLambdaParsed ==
    pc = "returned" =>
        \A h \in Callees, a \in ArgumentLists, l \in Lambdas :
            tokens = scanTokens(TrailingSource(h, a, l)) =>
                TrailingLambdaIsLastArgument(h, a)

\* parse has returned the call f(1) { x } with two arguments
TrailingLambdaAfterArgument ==
    /\ pc = "returned"
    /\ tokens = scanTokens(<<"f", "(", "1", ")", "{", "x", "}", ";">>)
    /\ Len(statements) = 1
    /\ Len(statements[1].expression.arguments) = 2
    /\ statements[1].expression.arguments[2].value.kind = "LambdaExpr"

\* C25: a syntax error anywhere inside a top-level declaration, a nested
\* block or lambda body included, is caught once, at the top-level call of
\* declaration(): the iteration of parse's loop that meets it records
\* exactly one diagnostic and adds no statement.
NestedErrorCaughtAtTopLevel ==
    [][(pc = "parsing" /\ errors' # errors) =>
        /\ Len(errors') = Len(errors) + 1
        /\ statements' = statements]_vars

\* the outcome of the try body of the top-level call of declaration()
TryBody == declarationBody(tokens, current, errors, 1)

\* the iteration of parse's loop whose try body throws: the catch clause
\* calls synchronize() with the cursor where the error was raised
SynchronizingStep ==
    /\ pc = "parsing"
    /\ ~isAtEnd(tokens, current)
    /\ TryBody.st = "throw"

\* the cursor stands at EOF, right after a `;`, or on a keyword that starts
\* a declaration or statement
AtBoundary(toks, cur) ==
    \/ peek(toks, cur).type = "EOF"
    \/ (cur > 0 /\ previous(toks, cur).type = "SEMICOLON")
    \/ peek(toks, cur).type \in {"FUN", "VAL", "VAR", "FOR", "IF", "WHILE", "RETURN"}

\* C26: when synchronize() returns it has discarded at least one token,
\* unless the cursor was already at EOF, and the cursor stands at EOF, or
\* right after a SEMICOLON, or on one of FUN, VAL, VAR, FOR, IF, WHILE,
\* RETURN, and on no token before that one was any of the three true.
SynchronizeStopsAtBoundary ==
    [][SynchronizingStep =>
        /\ (peek(tokens, TryBody.cur).type = "EOF" \/ current' > TryBody.cur)
        /\ current' >= TryBody.cur
        /\ AtBoundary(tokens, current')
        /\ \A c \in (TryBody.cur + 1)..(current' - 1) : ~AtBoundary(tokens, c)]_vars

\* after one failed declaration and nothing else the cursor stands on a
\* keyword, neither at EOF nor after a `;`
SynchronizedOnKeyword ==
    /\ pc = "parsing"
    /\ Len(errors) = 1
    /\ statements = <<>>
    /\ current > 0
    /\ peek(tokens, current).type \in {"FUN", "VAL", "VAR", "FOR", "IF", "WHILE", "RETURN"}
    /\ previous(tokens, current).type # "SEMICOLON"

\* the statements between the braces of a loop body, which the parser
\* hands over as a BlockExpr or as a LambdaExpr
BracedStatements(body) ==
    IF body.kind = "BlockExpr" THEN body.statements
    ELSE IF body.kind = "LambdaExpr" THEN body.body.statements
    ELSE <<>>

\* the one statement of the program is a loop, its condition, if it has
\* one, is Boolean, and the first statement between the braces of its body
\* has a type error
LoopWithIllTypedBody ==
    /\ Len(program) = 1
    /\ program[1].kind \in {"WhileStmt", "ForStmt"}
    /\ program[1].kind = "WhileStmt" =>
          /\ evaluate(program[1].condition, <<EmptyScope>>, NullNode, 4).st = "ok"
          /\ isTypeCompatible(getBooleanType,
                 evaluate(program[1].condition, <<EmptyScope>>, NullNode, 4).type)
    /\ BracedStatements(program[1].body) # <<>>
    /\ execute(BracedStatements(program[1].body)[1], <<EmptyScope, EmptyScope>>,
               NullNode, 8).st = "throw"
    /\ execute(BracedStatements(program[1].body)[1], <<EmptyScope, EmptyScope>>,
               NullNode, 8).exc.kind = "CheckerError"

\* C27: every statement between the braces of a while or for body is
\* type-checked: when check() returns from a program that is one loop
\* whose body's first statement has a type error, with nothing failing
\* before it, a diagnostic is recorded.
LoopBodyChecked ==
    (checkPc = "returned" /\ calls = 1 /\ LoopWithIllTypedBody) => checkerErrors # <<>>

\* C28: the verdict of the compatibility check depends only on the
\* structure and the identifiers of the two types, not on where they stand
\* in the source: two occurrences of the same type expression, such as
\* `A?` or `A | B`, at different columns are judged compatible.
SameTypeCompatibleAnywhere ==
    typeOut.st = "compared" =>
        \A t \in TypePairSamples :
            typeTokens = scanTokens(t \o <<",">> \o t) => typeOut.compatible

\* the cursor is an index into the token list, at most that of the EOF
\* token, which is the last one
CursorInRange == 0 <= current /\ (tokens # <<>> => current <= Len(tokens) - 1)

\* the iteration of parse's loop that starts in this state, if it
\* completes, leaves the cursor further on
IterationAdvances ==
    (pc = "parsing" /\ ~isAtEnd(tokens, current)
        /\ declaration(tokens, current, errors, 1).st = "ok")
    => declaration(tokens, current, errors, 1).cur > current

\* C29: in every reachable state of the parser the cursor is at least 0 and
\* at most the index of the EOF token, no step moves it backwards, and every
\* iteration of the top-level loop of parse that completes advances it by
\* at least one token.
CursorOnlyAdvances ==
    [](CursorInRange /\ IterationAdvances) /\ [][current' >= current]_vars

\* the loop of parse is in the middle of the tokens after an iteration that
\* recovered from a syntax error
RecoveredInTheMiddle ==
    /\ pc = "parsing"
    /\ errors # <<>>
    /\ 0 < current
    /\ current < Len(tokens) - 1

\* the source with the keyword at position i changed from `val` to `var` or
\* from `var` to `val`
Swap(ws, i) == [ws EXCEPT ![i] = IF @ = "val" THEN "var" ELSE "val"]

\* the diagnostics a new Checker reports for a source
Diagnostics(ws) ==
    checkLoop(parse(scanTokens(ws)).node, 1, <<EmptyScope>>, NullNode, <<>>).errors

\* the call of check on the program parsed from a source is over, and the
\* diagnostics are those of the same source with one declaration's keyword
\* changed, whichever declaration it is
SameDiagnosticsSwapped ==
    checkPc \in {"returned", "thrown"} =>
        \A ws \in DeclarationSources :
            program = parse(scanTokens(ws)).node =>
                \A i \in DOMAIN ws :
                    ws[i] \in {"val", "var"} => checkerErrors = Diagnostics(Swap(ws, i))

\* the variable's bound type and the value's type in an assignment that
\* initializes a top-level declaration; the visitor of the assignment runs
\* six frames below check()
AssignedVariable(stmt, env, fn) == get(env, fn, Len(env), stmt.initializer.name)
AssignedValue(stmt, env, fn) == evaluate(stmt.initializer.value, env, fn, 7)

\* the step checks a declaration without a declared type whose initializer
\* assigns a value of a compatible type to a variable declared with `val`
AssignsToVal ==
    /\ CheckingStatement
    /\ stmtIndex > 1
    /\ program[stmtIndex].kind = "VarStmt"
    /\ program[stmtIndex].type = NullNode
    /\ program[stmtIndex].initializer.kind = "AssignExpr"
    /\ \E j \in 1..(stmtIndex - 1) :
          /\ program[j].kind = "VarStmt"
          /\ program[j].name.lexeme = program[stmtIndex].initializer.name.lexeme
          /\ ~program[j].isMutable
    /\ AssignedVariable(program[stmtIndex], environment, currentFunction).st = "ok"
    /\ AssignedValue(program[stmtIndex], environment, currentFunction).st = "ok"
    /\ isTypeCompatible(
          AssignedVariable(program[stmtIndex], environment, currentFunction).type,
          AssignedValue(program[stmtIndex], environment, currentFunction).type)

====
